---- MODULE Spec2Model ----
(***************************************************************************)
(* Model of MariolaMLCryptoTradingUtils: the paginated historical fetch    *)
(* (utils/api_utils.py, utils/exception_handler.py), the label-aware       *)
(* normalise / reduce column flow and the sequence builder                 *)
(* (utils/ml_utils.py, scripts/lstm_train.py), the labelling of            *)
(* calc_utils.prepare_df, the step list of utils/df_utils.prepare_ml_df,   *)
(* the values utils/ml_utils.normalize_df computes in binary64, the batch  *)
(* driver scripts/fetch_data.py, the candlestick detectors and the feature *)
(* steps of utils/df_utils.py on values, the moving-average percentage     *)
(* columns (calc_utils.py, app_utils.py) and the rows of handle_pca.       *)
(*                                                                         *)
(* Timestamps are carried in seconds: the exchange's millisecond values    *)
(* are these times 1000 (TLC integers are 32 bits wide, a millisecond      *)
(* epoch is not).  The pair str(int(ts * 1000)) / int(start_str) / 1000 of *)
(* get_full_historical_klines is therefore the identity on seconds here;   *)
(* what is modelled of the start resolution is its type dispatch.          *)
(***************************************************************************)
EXTENDS Integers, Sequences, FiniteSets, TLC

VARIABLES
    \* ---- get_full_historical_klines -------------------------------------
    pc,               \* position in the call: "call","probe","loop","done"
    start_in,         \* the start_str argument as passed by the caller
    interval,         \* the interval argument
    tz,               \* UTC offset of the machine's local clock (seconds)
    now,              \* epoch (seconds) read by dt.now() at line 176
    start_str,        \* the local variable start_str (the request cursor)
    start_date,       \* naive UTC clock reading of the resolved start
    total_iterations, \* the iteration budget
    iteration,        \* loop counter
    all_klines,       \* rows collected so far
    result,           \* what the decorated call returned
    propagated,       \* an exception left the decorated call
    apiMode,          \* "history": candles >= cursor; "script": mock side_effect
    apiScript,        \* remaining scripted responses (mock side_effect list)
    apiFaults,        \* transient errors the API may still raise
    apiErrors,        \* errors the API has raised during the call
    requests,         \* log of the requests issued: cursor and limit
    \* ---- create_sequences ------------------------------------------------
    seq_pc,           \* position in the call: "call","loop","done"
    closes,           \* close prices the label column was computed from
    marker_period,    \* forward offset the Labeler used
    df_reduced,       \* the table argument: its columns and rows
    none_args,        \* the arguments passed as None
    lookback,         \* horizon argument
    window_size,      \* window argument
    result_marker,    \* label column argument
    training_mode,    \* training_mode argument
    df_features,      \* local: the table the windows are cut from
    i,                \* loop index
    X,                \* windows emitted so far
    y,                \* labels emitted so far
    y_rows,           \* row positions the labels were read from
    X_rows,           \* row positions each window was cut from
    seq_result,       \* the pair create_sequences returned
    \* ---- normalize_df / handle_pca as chained by train_lstm_model ---------
    pipe_pc,          \* "loaded","normalized","reduced"
    loaded_df,        \* schema of the loaded table: columns with dtypes, rows
    p_training_mode,  \* training_mode passed to normalize_df
    p_result_marker,  \* result_marker setting
    df_normalized,    \* schema normalize_df returned, or None
    pca_fit_columns,  \* columns of the matrix the PCA was fit on
    df_pca,           \* schema handle_pca returned, or None
    \* ---- calc_utils.prepare_df: averages of close and the labels ----------
    lab_pc,           \* "call","averages","markers","done"
    lab_close,        \* the close column of the table argument
    regresion,        \* regresion argument
    clasification,    \* clasification argument
    lab_k,            \* position in the loop being run
    lab_table,        \* result: column name -> column
    lab_result,       \* what the call returned, or that it raised
    \* ---- df_utils.prepare_ml_df -------------------------------------------
    prep_pc,              \* "call","run","done"
    prep_df,              \* the df argument: its columns and row count
    prep_settings,        \* the settings argument
    prep_training_mode,   \* training_mode argument
    prep_regression,      \* regression argument
    prep_classification,  \* classification argument
    prep_ip,              \* the line of prepare_ml_df to run next
    prep_cols,            \* columns of the local table result
    prep_filled,          \* fillna(0) has been applied to result
    prep_failed,          \* steps that raised and returned None
    prep_future,          \* a shift to later rows has been evaluated
    prep_called,          \* steps that were called
    prep_result,          \* what prepare_ml_df returned
    prep_alias,           \* result is the caller's table object
    prep_prev,            \* what the call before this one returned
    prep_calls,           \* calls of prepare_ml_df so far
    \* ---- ml_utils.normalize_df on values ----------------------------------
    norm_pc,              \* "call","fitted","returned"
    norm_df,              \* the df argument: its columns and its cells
    norm_training_mode,   \* training_mode argument
    norm_result_marker,   \* result_marker argument
    norm_work,            \* the local df after lines 59-62
    scaler,               \* the MinMaxScaler of this call
    norm_result,          \* what normalize_df returned
    norm_prev,            \* what the call before this one returned
    norm_calls,           \* calls of normalize_df so far
    \* ---- scripts/fetch_data.fetch_data -------------------------------------
    batch_pc,          \* "start","loop","done"
    dry_run,           \* second command-line argument is 'yes'
    fetch_sequence,    \* settings_data['fetch_sequence'], with each step's outcome
    step_no,           \* the loop counter i
    fetch_calls,       \* steps get_full_historical_klines was called for
    csv_files,         \* steps whose CSV file was written
    info_files,        \* steps whose info file was written
    completion_logged, \* the final log line was written
    \* ---- df_utils candlestick pattern detectors ----------------------------
    candle_ip,    \* detector calls made so far
    candle_df,    \* the table: its candles, oldest first
    candle_flags, \* column name -> the boolean column assigned
    candle_first, \* candle_flags after the first three calls
    \* ---- df_utils feature steps on two tables ------------------------------
    feat_ip,            \* feature steps made so far
    feat_a,             \* the first table: its candles, oldest first
    feat_b,             \* the second table, equal to feat_a on its first feat_t rows
    feat_t,             \* rows on which the two tables agree
    feat_lag_period,    \* settings lag_period
    feat_marker_period, \* settings marker_periods
    feat_cols_a,        \* column name -> the column of the first run
    feat_cols_b,        \* column name -> the column of the second run
    \* ---- X_pct_change_vs_ma_N of prepare_df and calculate_indicator_changes ---
    ma_pc,      \* "call","done"
    ma_routine, \* the routine that derives the columns
    ma_series,  \* the base column X
    ma_period,  \* the averaging period N
    ma_columns, \* the columns X_ma_N and X_pct_change_vs_ma_N
    \* ---- handle_pca on rows ------------------------------------------------
    align_pc,       \* "call","done"
    align_nrows,    \* rows of df_normalized and of loaded_df
    align_features, \* columns of df_normalized
    align_index,    \* index labels of loaded_df, by row position
    align_labels,   \* label column of loaded_df, by row position
    align_marker,   \* result_marker: the label column, a name loaded_df lacks, or None
    align_result    \* what handle_pca returned

fetchVars == <<pc, start_in, interval, tz, now, start_str, start_date,
               total_iterations, iteration, all_klines, result, propagated,
               apiMode, apiScript, apiFaults, apiErrors, requests>>

seqVars == <<seq_pc, closes, marker_period, df_reduced, none_args, lookback,
             window_size, result_marker, training_mode, df_features, i, X, y,
             y_rows, X_rows, seq_result>>

pipeVars == <<pipe_pc, loaded_df, p_training_mode, p_result_marker,
              df_normalized, pca_fit_columns, df_pca>>

labelVars == <<lab_pc, lab_close, regresion, clasification, lab_k, lab_table,
               lab_result>>

prepVars == <<prep_pc, prep_df, prep_settings, prep_training_mode,
              prep_regression, prep_classification, prep_ip, prep_cols,
              prep_filled, prep_failed, prep_future, prep_called, prep_result,
              prep_alias, prep_prev, prep_calls>>

normVars == <<norm_pc, norm_df, norm_training_mode, norm_result_marker,
              norm_work, scaler, norm_result, norm_prev, norm_calls>>

batchVars == <<batch_pc, dry_run, fetch_sequence, step_no, fetch_calls,
               csv_files, info_files, completion_logged>>

candleVars == <<candle_ip, candle_df, candle_flags, candle_first>>

featVars == <<feat_ip, feat_a, feat_b, feat_t, feat_lag_period,
              feat_marker_period, feat_cols_a, feat_cols_b>>

maVars == <<ma_pc, ma_routine, ma_series, ma_period, ma_columns>>

alignVars == <<align_pc, align_nrows, align_features, align_index,
               align_labels, align_marker, align_result>>

vars == <<fetchVars, seqVars, pipeVars, labelVars, prepVars, normVars,
          batchVars, candleVars, featVars, maVars, alignVars>>

\* What each operation leaves alone: the state of the other operations
notFetch == <<seqVars, pipeVars, labelVars, prepVars, normVars, batchVars,
              candleVars, featVars, maVars, alignVars>>
notSeq == <<fetchVars, pipeVars, labelVars, prepVars, normVars, batchVars,
            candleVars, featVars, maVars, alignVars>>
notPipe == <<fetchVars, seqVars, labelVars, prepVars, normVars, batchVars,
             candleVars, featVars, maVars, alignVars>>
notLabel == <<fetchVars, seqVars, pipeVars, prepVars, normVars, batchVars,
              candleVars, featVars, maVars, alignVars>>
notPrep == <<fetchVars, seqVars, pipeVars, labelVars, normVars, batchVars,
             candleVars, featVars, maVars, alignVars>>
notNorm == <<fetchVars, seqVars, pipeVars, labelVars, prepVars, batchVars,
             candleVars, featVars, maVars, alignVars>>
notBatch == <<fetchVars, seqVars, pipeVars, labelVars, prepVars, normVars,
              candleVars, featVars, maVars, alignVars>>
notCandle == <<fetchVars, seqVars, pipeVars, labelVars, prepVars, normVars,
               batchVars, featVars, maVars, alignVars>>
notFeat == <<fetchVars, seqVars, pipeVars, labelVars, prepVars, normVars,
             batchVars, candleVars, maVars, alignVars>>
notMa == <<fetchVars, seqVars, pipeVars, labelVars, prepVars, normVars,
           batchVars, candleVars, featVars, alignVars>>
notAlign == <<fetchVars, seqVars, pipeVars, labelVars, prepVars, normVars,
              batchVars, candleVars, featVars, maVars>>

-----------------------------------------------------------------------------
\* Bounds of the model
MaxKilo == 2          \* elapsed time spans up to MaxKilo thousand candles
MaxFaults == 2        \* transient errors the API may raise in one call
MaxRows == 4          \* rows of the table handed to create_sequences
MaxWindow == 2        \* window_size values 0..MaxWindow
MaxLookback == 2      \* lookback (horizon) values 0..MaxLookback
MaxMarker == 2        \* marker_period values 1..MaxMarker
MaxTail == 2          \* rows at the table's end whose close price varies
MaxPrepRows == 2      \* rows of the table handed to prepare_ml_df
MaxPrepCalls == 2     \* calls of prepare_ml_df on the same arguments
MaxNormRows == 2      \* rows of the first table handed to normalize_df
MaxCalls == 2         \* calls of normalize_df in a behaviour
MaxSteps == 3          \* steps of fetch_sequence
MaxCandles == 3        \* rows of the table handed to the pattern detectors
MaxFeatRows == 3       \* rows of the two tables handed to the feature steps
MaxMaRows == 3         \* rows of the base column that vary
MaxIndexStart == 1     \* first index label of the table handed to handle_pca

\* Program constants
candles_per_iteration == 1000

\* Values a call can hand back: None, a DataFrame (its rows), or nothing yet
None == [kind |-> "None", rows |-> <<>>]
NotReturned == [kind |-> "pending", rows |-> <<>>]
DataFrame(rows) == [kind |-> "df", rows |-> rows]

\* exception_handler() is applied without argument: default_return=None
default_return == None

-----------------------------------------------------------------------------
\* Inputs

\* A day (UTC midnight, seconds) the caller may name as a date string
Day0 == 24 * 3600

\* start_str as the caller passes it: a '1 Jan, 2020' date string, a
\* millisecond timestamp as int or as digit string, an unparsable string, None
StartInputs ==
    { [type |-> "str", form |-> "date",   val |-> Day0],
      [type |-> "int", form |-> "digits", val |-> Day0],
      [type |-> "str", form |-> "digits", val |-> Day0],
      [type |-> "str", form |-> "other",  val |-> 0],
      [type |-> "NoneType", form |-> "none", val |-> 0] }

Intervals == {"1h", "30m", "15m", "1d"}

TzOffsets == {-3600, 0, 3600}

\* Whole candles elapsed between the start and now
ElapsedCandles ==
    { k * candles_per_iteration + d : k \in 0..MaxKilo, d \in {-1, 0, 1} }
      \ {-1}

\* Seconds elapsed into the current candle
ElapsedFraction == {0, 1}

\* Duration of one candle on the exchange
IntervalSeconds(iv) ==
    CASE iv = "1h"  -> 3600
      [] iv = "30m" -> 1800
      [] iv = "15m" -> 900
      [] iv = "1d"  -> 86400

ErrorKinds == {"BinanceAPIException", "ConnectionError", "TimeoutError"}

-----------------------------------------------------------------------------
\* The exchange API (external collaborator)

\* Raw kline as the API returns it: prices are numeric strings
ClosePrice(t) == 1 + ((t \div 900) % 3)
Kline(t) == [open_time |-> t, close |-> [str |-> ClosePrice(t)]]

\* First candle open time at or after the cursor
FirstAtOrAfter(cursor, iv) ==
    ((cursor + IntervalSeconds(iv) - 1) \div IntervalSeconds(iv))
        * IntervalSeconds(iv)

\* Number of candles the API holds with open_time in [cursor, now]
Available(cursor, iv) ==
    IF now < FirstAtOrAfter(cursor, iv) THEN 0
    ELSE ((now - FirstAtOrAfter(cursor, iv)) \div IntervalSeconds(iv)) + 1

Min(a, b) == IF a < b THEN a ELSE b
Max(a, b) == IF a > b THEN a ELSE b

\* The candles with open_time >= cursor, ascending, at most limit of them
HistoryPage(cursor, iv, limit) ==
    [ j \in 1..Min(limit, Available(cursor, iv)) |->
        Kline(FirstAtOrAfter(cursor, iv) + (j - 1) * IntervalSeconds(iv)) ]

\* The outcomes one call of binance_client.get_historical_klines can have,
\* with the API state it leaves behind
ApiOutcomes(cursor, iv, limit) ==
    IF apiMode = "script"
    THEN IF apiScript = <<>>
         THEN { [kind |-> "raise", exc |-> "StopIteration", rows |-> <<>>,
                 script |-> apiScript, faults |-> apiFaults] }
         ELSE { [kind |-> "page", exc |-> "", rows |-> Head(apiScript).rows,
                 script |-> Tail(apiScript), faults |-> apiFaults] }
    ELSE { [kind |-> "page", exc |-> "", rows |-> HistoryPage(cursor, iv, limit),
            script |-> apiScript, faults |-> apiFaults] }
         \cup
         { [kind |-> "raise", exc |-> e, rows |-> <<>>,
            script |-> apiScript, faults |-> apiFaults - 1]
           : e \in IF apiFaults > 0 THEN ErrorKinds ELSE {} }

\* Mock of tests/test_api_utils.py: one page of one row, then an empty page
TestRow == Kline(Day0)
ScriptOnePageThenEmpty ==
    << [kind |-> "page", rows |-> <<TestRow>>, exc |-> ""],
       [kind |-> "page", rows |-> <<>>, exc |-> ""] >>

ApiScripts == { ScriptOnePageThenEmpty }

-----------------------------------------------------------------------------
\* utils/exception_handler.py

\* Mutant: the wrapper re-enters the wrapped code at the failed request
exception_handler_retry(exc, at, collected) ==
    [pc |-> at, result |-> NotReturned, propagated |-> FALSE]

\* Mutant: the wrapper hands back what was collected before the error
exception_handler_partial(exc, at, collected) ==
    [pc |-> "done", result |-> DataFrame(collected), propagated |-> FALSE]

\* wrapper(): every Exception raised by the wrapped function (the listed
\* types and the catch-all alike) is logged and swallowed, and the call
\* returns default_return.  exc is the exception, at the position where it
\* was raised, collected the rows gathered so far.
exception_handler(exc, at, collected) ==
    [pc |-> "done", result |-> default_return, propagated |-> FALSE]

-----------------------------------------------------------------------------
\* utils/api_utils.py : get_full_historical_klines

\* dt.strptime(start_str, "%d %b, %Y") parses date strings and nothing else
strptime_ok(s) == s.type = "str" /\ s.form = "date"

\* Lines 150-157: resolve start_str to a digit string and a naive UTC date.
\* A date string names local midnight, whose epoch is val - offset.
ResolveStart(s, offset) ==
    LET s1 == IF s.type = "int"
              THEN [type |-> "str", form |-> "digits", val |-> s.val]
              ELSE s
    IN  IF s1.type = "str"
        THEN IF strptime_ok(s1)
             THEN [ok |-> TRUE, exc |-> "",
                   start_str |-> [type |-> "str", form |-> "digits",
                                  val |-> s1.val - offset],
                   start_date |-> s1.val - offset]
             ELSE [ok |-> FALSE, exc |-> "ValueError",
                   start_str |-> s1, start_date |-> 0]
        ELSE \* int(None) at line 156
             [ok |-> FALSE, exc |-> "TypeError",
              start_str |-> s1, start_date |-> 0]

\* Lines 176-177: delta = dt.now() - start_date, both naive: the local clock
\* reading of now minus the UTC clock reading of the start
Delta == (now + tz) - start_date

SupportedIntervals == {"1h", "30m", "15m"}

\* Lines 180-185: seconds per candle used for total_candles
CandleSeconds(iv) ==
    CASE iv = "1h"  -> 3600
      [] iv = "30m" -> 1800
      [] iv = "15m" -> 900

\* Mutant: one iteration is always added to the quotient
TotalIterations_one_more(delta, iv) ==
    (delta \div (candles_per_iteration * CandleSeconds(iv))) + 1

\* Lines 193-194 with total_candles = delta / CandleSeconds(iv):
\* (total_candles // 1000) + (1 if total_candles % 1000 else 0)
TotalIterations(delta, iv) ==
    (delta \div (candles_per_iteration * CandleSeconds(iv)))
    + (IF delta % (candles_per_iteration * CandleSeconds(iv)) # 0
       THEN 1 ELSE 0)

\* Line 213: start_str = klines[-1][0]
NextCursor(klines) ==
    [type |-> "int", form |-> "digits", val |-> klines[Len(klines)].open_time]

\* Lines 220-231: the DataFrame of the collected rows, close cast to float
BuildDataFrame(klines) ==
    DataFrame([ j \in 1..Len(klines) |->
                  [open_time |-> klines[j].open_time,
                   close |-> klines[j].close.str] ])

Request(cursor, limit) == [cursor |-> cursor.val, limit |-> limit]

\* The call ends: by return, or through the decorator after an exception
Returns(h) ==
    /\ pc' = h.pc
    /\ result' = h.result
    /\ propagated' = h.propagated

inputVars == <<start_in, interval, tz, now, apiMode>>

\* Lines 147-158, start resolved
ResolveOk ==
    /\ pc = "call"
    /\ ResolveStart(start_in, tz).ok
    /\ start_str' = ResolveStart(start_in, tz).start_str
    /\ start_date' = ResolveStart(start_in, tz).start_date
    /\ pc' = "probe"
    /\ UNCHANGED <<notFetch, inputVars, total_iterations, iteration, all_klines, result,
                   propagated, apiScript, apiFaults, apiErrors, requests>>

\* Lines 147-158, strptime or int() raises
ResolveRaises ==
    /\ pc = "call"
    /\ ~ResolveStart(start_in, tz).ok
    /\ start_str' = ResolveStart(start_in, tz).start_str
    /\ Returns(exception_handler(ResolveStart(start_in, tz).exc, pc, all_klines))
    /\ UNCHANGED <<notFetch, inputVars, start_date, total_iterations, iteration,
                   all_klines, apiScript, apiFaults, apiErrors, requests>>

\* Lines 160-165, the probe request raises
ProbeRaises ==
    /\ pc = "probe"
    /\ \E o \in ApiOutcomes(start_str.val, interval, 1) :
          /\ o.kind = "raise"
          /\ apiScript' = o.script
          /\ apiFaults' = o.faults
          /\ Returns(exception_handler(o.exc, pc, all_klines))
    /\ apiErrors' = apiErrors + 1
    /\ requests' = Append(requests, Request(start_str, 1))
    /\ UNCHANGED <<notFetch, inputVars, start_str, start_date, total_iterations,
                   iteration, all_klines>>

\* Lines 160-174, the probe finds no candle: return None
ProbeNoData ==
    /\ pc = "probe"
    /\ \E o \in ApiOutcomes(start_str.val, interval, 1) :
          /\ o.kind = "page"
          /\ o.rows = <<>>
          /\ apiScript' = o.script
          /\ apiFaults' = o.faults
    /\ requests' = Append(requests, Request(start_str, 1))
    /\ Returns([pc |-> "done", result |-> None, propagated |-> FALSE])
    /\ UNCHANGED <<notFetch, inputVars, start_str, start_date, total_iterations,
                   iteration, all_klines, apiErrors>>

\* Lines 160-188, a candle exists but the interval is not supported: return
ProbeWrongInterval ==
    /\ pc = "probe"
    /\ \E o \in ApiOutcomes(start_str.val, interval, 1) :
          /\ o.kind = "page"
          /\ o.rows # <<>>
          /\ apiScript' = o.script
          /\ apiFaults' = o.faults
    /\ interval \notin SupportedIntervals
    /\ requests' = Append(requests, Request(start_str, 1))
    /\ Returns([pc |-> "done", result |-> None, propagated |-> FALSE])
    /\ UNCHANGED <<notFetch, inputVars, start_str, start_date, total_iterations,
                   iteration, all_klines, apiErrors>>

\* Lines 160-197, a candle exists: the iteration budget is computed
ProbeOk ==
    /\ pc = "probe"
    /\ \E o \in ApiOutcomes(start_str.val, interval, 1) :
          /\ o.kind = "page"
          /\ o.rows # <<>>
          /\ apiScript' = o.script
          /\ apiFaults' = o.faults
    /\ interval \in SupportedIntervals
    /\ requests' = Append(requests, Request(start_str, 1))
    /\ total_iterations' = TotalIterations(Delta, interval)
    /\ iteration' = 0
    /\ pc' = "loop"
    /\ UNCHANGED <<notFetch, inputVars, start_str, start_date, all_klines, result,
                   propagated, apiErrors>>

\* Lines 198-206, a page request raises
PageRaises ==
    /\ pc = "loop"
    /\ iteration < total_iterations
    /\ iteration' = iteration + 1
    /\ \E o \in ApiOutcomes(start_str.val, interval, candles_per_iteration) :
          /\ o.kind = "raise"
          /\ apiScript' = o.script
          /\ apiFaults' = o.faults
          /\ Returns(exception_handler(o.exc, pc, all_klines))
    /\ apiErrors' = apiErrors + 1
    /\ requests' = Append(requests, Request(start_str, candles_per_iteration))
    /\ UNCHANGED <<notFetch, inputVars, start_str, start_date, total_iterations,
                   all_klines>>

\* Lines 198-209 and 220-234, an empty page: break, build and return the table
PageEmpty ==
    /\ pc = "loop"
    /\ iteration < total_iterations
    /\ iteration' = iteration + 1
    /\ \E o \in ApiOutcomes(start_str.val, interval, candles_per_iteration) :
          /\ o.kind = "page"
          /\ o.rows = <<>>
          /\ apiScript' = o.script
          /\ apiFaults' = o.faults
    /\ requests' = Append(requests, Request(start_str, candles_per_iteration))
    /\ Returns([pc |-> "done", result |-> BuildDataFrame(all_klines),
                propagated |-> FALSE])
    /\ UNCHANGED <<notFetch, inputVars, start_str, start_date, total_iterations,
                   all_klines, apiErrors>>

\* Lines 198-218, a page with rows: collect them and move the cursor
PageRows ==
    /\ pc = "loop"
    /\ iteration < total_iterations
    /\ iteration' = iteration + 1
    /\ \E o \in ApiOutcomes(start_str.val, interval, candles_per_iteration) :
          /\ o.kind = "page"
          /\ o.rows # <<>>
          /\ apiScript' = o.script
          /\ apiFaults' = o.faults
          /\ all_klines' = all_klines \o o.rows
          /\ start_str' = NextCursor(o.rows)
    /\ requests' = Append(requests, Request(start_str, candles_per_iteration))
    /\ UNCHANGED <<notFetch, inputVars, pc, start_date, total_iterations, result,
                   propagated, apiErrors>>

\* Lines 198 and 220-234, the budget is used up: build and return the table
BudgetExhausted ==
    /\ pc = "loop"
    /\ ~(iteration < total_iterations)
    /\ Returns([pc |-> "done", result |-> BuildDataFrame(all_klines),
                propagated |-> FALSE])
    /\ UNCHANGED <<notFetch, inputVars, start_str, start_date, total_iterations,
                   iteration, all_klines, apiScript, apiFaults, apiErrors,
                   requests>>

\* State at the call of get_full_historical_klines
FetchInit ==
    /\ pc = "call"
    /\ start_in \in StartInputs
    /\ interval \in Intervals
    /\ tz \in TzOffsets
    /\ \E e \in ElapsedCandles, f \in ElapsedFraction :
          now \in { (Day0 - tz) + e * IntervalSeconds(interval) + f,
                    (Day0 - tz) - 1 }
    /\ start_str = start_in
    /\ start_date = 0
    /\ total_iterations = 0
    /\ iteration = 0
    /\ all_klines = <<>>
    /\ result = NotReturned
    /\ propagated = FALSE
    /\ \/ apiMode = "history" /\ apiScript = <<>> /\ apiFaults \in 0..MaxFaults
       \/ apiMode = "script" /\ apiScript \in ApiScripts /\ apiFaults = 0
    /\ apiErrors = 0
    /\ requests = <<>>

FetchNext ==
    \/ ResolveOk
    \/ ResolveRaises
    \/ ProbeRaises
    \/ ProbeNoData
    \/ ProbeWrongInterval
    \/ ProbeOk
    \/ PageRaises
    \/ PageEmpty
    \/ PageRows
    \/ BudgetExhausted

-----------------------------------------------------------------------------
\* utils/df_utils.py : the label column as the Labeler and Cleaner leave it

ClosePrices == {1, 2}

\* add_ml_regression_etiquete, lines 486-488:
\* (close.shift(-marker_period) - close) / close * 100, null where the
\* shifted row does not exist (the quotient is exact for ClosePrices)
add_ml_regression_etiquete(cl, m) ==
    [ t \in 1..Len(cl) |->
        IF t + m <= Len(cl)
        THEN [null |-> FALSE, v |-> ((cl[t + m] - cl[t]) * 100) \div cl[t]]
        ELSE [null |-> TRUE, v |-> 0] ]

\* handle_final_ml_df_cleaninig, line 558: df.fillna(0)
fillna(col) == [ t \in 1..Len(col) |-> IF col[t].null THEN 0 ELSE col[t].v ]

\* The reduced table of a training run: one component column "0" (here the
\* row's close stands for the component) and the label column "marker"
ReducedTable(cl, m) ==
    [columns |-> <<"0", "marker">>,
     rows |-> [ t \in 1..Len(cl) |->
                  [c \in {"0", "marker"} |->
                     IF c = "0" THEN cl[t]
                     ELSE fillna(add_ml_regression_etiquete(cl, m))[t]] ]]

-----------------------------------------------------------------------------
\* utils/ml_utils.py : create_sequences

PyNone == [kind |-> "None", data |-> <<>>]
\* The second position of a returned value that is a single array, not a pair
NoElement == [kind |-> "absent", data |-> <<>>]
ndarray(s) == [kind |-> "ndarray", data |-> s]
SeqPending == [first |-> [kind |-> "pending", data |-> <<>>],
               second |-> [kind |-> "pending", data |-> <<>>]]

\* df.drop(columns=[name])
DropColumn(df, name) ==
    [columns |-> SelectSeq(df.columns, LAMBDA c : c # name),
     rows |-> [ t \in 1..Len(df.rows) |->
                  [c \in (DOMAIN df.rows[t]) \ {name} |-> df.rows[t][c]] ]]

HasColumn(df, name) == \E k \in 1..Len(df.columns) : df.columns[k] = name

\* Mutant: the slice holds the row at position b as well
IlocSliceValues_inclusive(df, a, b) ==
    [ r \in 1..Max(0, Min(b + 1, Len(df.rows)) - a) |->
        [ k \in 1..Len(df.columns) |-> df.rows[a + r][df.columns[k]] ] ]

\* df.iloc[a:b].values for 0 <= a: the rows at 0-based positions a..b-1
\* that exist, each as its values in column order
IlocSliceValues(df, a, b) ==
    [ r \in 1..Max(0, Min(b, Len(df.rows)) - a) |->
        [ k \in 1..Len(df.columns) |-> df.rows[a + r][df.columns[k]] ] ]

\* The table of the 0-based row positions of df
RowPositions(df) ==
    [columns |-> << "position" >>,
     rows |-> [ t \in 1..Len(df.rows) |-> [c \in {"position"} |-> t - 1] ]]

\* Mutant: the loop stops one index early
RangeStop_short(df, lb) == Len(df.rows) - lb - 1

\* Line 166: range(window_size, len(df_reduced) - lookback), upper bound
RangeStop(df, lb) == Len(df.rows) - lb

\* Line 166: range(window_size, ...), first index
RangeStart(ws) == ws

\* Mutant: the window is cut one row late and holds row i itself
Window_late(df, idx, ws) == IlocSliceValues(df, idx - ws + 1, idx + 1)

\* Line 167: the window of index i
Window(df, idx, ws) == IlocSliceValues(df, idx - ws, idx)

\* Line 170: the 0-based row position the label of index i is read from
LabelRow(idx, lb) == idx + lb

seqInputs == <<closes, marker_period, df_reduced, none_args, lookback,
               window_size, result_marker, training_mode>>

\* Mutant: result_marker may be None when training_mode is false
ArgsMissing_label_optional(na, tm) ==
    (na \ (IF tm THEN {} ELSE {"result_marker"})) # {}

\* Lines 150-156: df_reduced is None or lookback is None or window_size is
\* None or result_marker is None, whatever training_mode is
ArgsMissing(na, tm) == na # {}

\* Lines 150-156 and 174-176: an argument is None, ValueError, (None, None)
SeqArgsMissing ==
    /\ seq_pc = "call"
    /\ ArgsMissing(none_args, training_mode)
    /\ seq_pc' = "done"
    /\ seq_result' = [first |-> PyNone, second |-> PyNone]
    /\ UNCHANGED <<notSeq, seqInputs, df_features, i, X, y, y_rows, X_rows>>

\* Lines 163-164 and 174-176: drop(columns=[result_marker]) raises KeyError
SeqDropFails ==
    /\ seq_pc = "call"
    /\ ~ArgsMissing(none_args, training_mode)
    /\ training_mode
    /\ ~HasColumn(df_reduced, result_marker)
    /\ seq_pc' = "done"
    /\ seq_result' = [first |-> PyNone, second |-> PyNone]
    /\ UNCHANGED <<notSeq, seqInputs, df_features, i, X, y, y_rows, X_rows>>

\* Lines 150-166: arguments present, df_features chosen, the loop starts
SeqEnterLoop ==
    /\ seq_pc = "call"
    /\ ~ArgsMissing(none_args, training_mode)
    /\ training_mode => HasColumn(df_reduced, result_marker)
    /\ df_features' = IF training_mode
                      THEN DropColumn(df_reduced, result_marker)
                      ELSE df_reduced
    /\ i' = RangeStart(window_size)
    /\ X' = <<>>
    /\ y' = <<>>
    /\ seq_pc' = "loop"
    /\ UNCHANGED <<notSeq, seqInputs, y_rows, X_rows, seq_result>>

\* Lines 166-170: one iteration of the loop
SeqStep ==
    /\ seq_pc = "loop"
    /\ i < RangeStop(df_reduced, lookback)
    /\ X' = Append(X, Window(df_features, i, window_size))
    /\ X_rows' = Append(X_rows, Window(RowPositions(df_features), i,
                                       window_size))
    /\ IF training_mode
       THEN /\ y' = Append(y, df_reduced.rows[LabelRow(i, lookback) + 1]
                                  [result_marker])
            /\ y_rows' = Append(y_rows, LabelRow(i, lookback))
       ELSE UNCHANGED <<y, y_rows>>
    /\ i' = i + 1
    /\ UNCHANGED <<notSeq, seqInputs, df_features, seq_pc,
                   seq_result>>

\* Line 172: return np.array(X), np.array(y) if training_mode else np.array(X)
\* (a pair whose second element is the conditional expression)
SeqReturn ==
    /\ seq_pc = "loop"
    /\ ~(i < RangeStop(df_reduced, lookback))
    /\ seq_result' = [first |-> ndarray(X),
                      second |-> IF training_mode THEN ndarray(y)
                                 ELSE ndarray(X)]
    /\ seq_pc' = "done"
    /\ UNCHANGED <<notSeq, seqInputs, df_features, i, X, y, y_rows, X_rows>>

\* Tuples over S of length 0..n
SeqsUpTo(S, n) == UNION { [1..k -> S] : k \in 0..n }

\* State at the call of create_sequences
SeqInit ==
    /\ seq_pc = "call"
    /\ closes \in SeqsUpTo(ClosePrices, MaxRows)
    /\ marker_period \in 1..MaxMarker
    /\ df_reduced = ReducedTable(closes, marker_period)
    /\ none_args \in {{}, {"df_reduced"}, {"lookback"}, {"window_size"},
                       {"result_marker"}}
    /\ lookback \in 0..MaxLookback
    /\ window_size \in 0..MaxWindow
    /\ result_marker \in {"marker", "missing"}
    /\ training_mode \in BOOLEAN
    /\ df_features = df_reduced
    /\ i = 0
    /\ X = <<>>
    /\ y = <<>>
    /\ y_rows = <<>>
    /\ X_rows = <<>>
    /\ seq_result = SeqPending

SeqNext ==
    \/ SeqArgsMissing
    \/ SeqDropFails
    \/ SeqEnterLoop
    \/ SeqStep
    \/ SeqReturn

-----------------------------------------------------------------------------
\* utils/ml_utils.py : normalize_df and handle_pca on the table's schema
\* (which columns, of which dtype, and how many rows), chained as
\* scripts/lstm_train.py (training) and scripts/lstm_predict.py do

n_components == 50

NoTable == [kind |-> "None", columns |-> <<>>, nrows |-> 0]
Table(cols, n) == [kind |-> "df", columns |-> cols, nrows |-> n]
Column(name, dtype) == [name |-> name, dtype |-> dtype]

NoMarker == "<None>"

\* df is None or df.empty
IsEmpty(df) == df.kind = "None" \/ df.nrows = 0 \/ df.columns = <<>>

ColumnNames(df) == { df.columns[k].name : k \in 1..Len(df.columns) }

DtypeOf(df, name) ==
    (CHOOSE k \in 1..Len(df.columns) : df.columns[k].name = name)

\* Lines 52-57: the float64/int64 columns, without result_marker in training
numeric_features(df, tm, rm) ==
    SelectSeq(df.columns,
              LAMBDA c : /\ c.dtype \in {"float64", "int64"}
                         /\ ~(tm /\ c.name = rm))

\* Mutant: the label column is dropped from what normalize_df returns
normalize_df_no_label(df, tm, rm) ==
    IF IsEmpty(df) THEN NoTable
    ELSE IF tm /\ rm # NoMarker /\ rm \notin ColumnNames(df) THEN NoTable
    ELSE IF numeric_features(df, tm, rm) = <<>> THEN NoTable
    ELSE Table([ k \in 1..Len(numeric_features(df, tm, rm)) |->
                   Column(numeric_features(df, tm, rm)[k].name, "float64") ],
               df.nrows)

\* normalize_df, lines 40-77.  The scaler is fit on df[numeric_features]
\* (MinMaxScaler rejects a matrix without columns: ValueError, None); the
\* result holds the scaled columns and, in training mode with a
\* result_marker, the label column appended unchanged (lines 70-71).
normalize_df(df, tm, rm) ==
    IF IsEmpty(df) THEN NoTable
    ELSE IF tm /\ rm # NoMarker /\ rm \notin ColumnNames(df) THEN NoTable
    ELSE IF numeric_features(df, tm, rm) = <<>> THEN NoTable
    ELSE Table([ k \in 1..Len(numeric_features(df, tm, rm)) |->
                   Column(numeric_features(df, tm, rm)[k].name, "float64") ]
               \o (IF tm /\ rm # NoMarker
                    THEN << Column(rm, df.columns[DtypeOf(df, rm)].dtype) >>
                    ELSE << >>),
               df.nrows)

\* Line 103: pca.fit_transform(df_normalized) is fit on every column of its
\* argument
PcaFitColumns(dfn) == ColumnNames(dfn)

\* PCA(n_components=50).fit needs n_components <= min(n_samples, n_features)
PcaFitOk(dfn) == n_components <= Min(dfn.nrows, Len(dfn.columns))

\* handle_pca, lines 97-113
handle_pca(dfn, ldf, rm) ==
    IF IsEmpty(dfn) THEN NoTable
    ELSE IF ~PcaFitOk(dfn) THEN NoTable
    ELSE Table([ k \in 1..n_components |-> Column(ToString(k - 1), "float64") ]
               \o (IF rm # NoMarker /\ rm \in ColumnNames(ldf)
                    THEN << Column(rm, ldf.columns[DtypeOf(ldf, rm)].dtype) >>
                    ELSE << >>),
               dfn.nrows)

\* result_marker as the script passes it to handle_pca:
\* lstm_train.py line 126 passes the setting, lstm_predict.py line 146 None
PcaMarkerArg(tm, rm) == IF tm THEN rm ELSE NoMarker

pipeInputs == <<loaded_df, p_training_mode, p_result_marker>>

\* normalize_df returns None
NormalizeFails ==
    /\ pipe_pc = "loaded"
    /\ normalize_df(loaded_df, p_training_mode, p_result_marker) = NoTable
    /\ df_normalized' = NoTable
    /\ pipe_pc' = "normalized"
    /\ UNCHANGED <<notPipe, pipeInputs, pca_fit_columns, df_pca>>

\* normalize_df returns the normalized table
NormalizeOk ==
    /\ pipe_pc = "loaded"
    /\ normalize_df(loaded_df, p_training_mode, p_result_marker) # NoTable
    /\ df_normalized' = normalize_df(loaded_df, p_training_mode, p_result_marker)
    /\ pipe_pc' = "normalized"
    /\ UNCHANGED <<notPipe, pipeInputs, pca_fit_columns, df_pca>>

\* handle_pca refuses an absent or empty table
PcaNoInput ==
    /\ pipe_pc = "normalized"
    /\ IsEmpty(df_normalized)
    /\ df_pca' = NoTable
    /\ pipe_pc' = "reduced"
    /\ UNCHANGED <<notPipe, pipeInputs, df_normalized,
                   pca_fit_columns>>

\* handle_pca: pca.fit_transform rejects the matrix (fewer rows or columns
\* than n_components): ValueError, None
PcaFitRaises ==
    /\ pipe_pc = "normalized"
    /\ ~IsEmpty(df_normalized)
    /\ ~PcaFitOk(df_normalized)
    /\ df_pca' = handle_pca(df_normalized, loaded_df,
                            PcaMarkerArg(p_training_mode, p_result_marker))
    /\ pipe_pc' = "reduced"
    /\ UNCHANGED <<notPipe, pipeInputs, df_normalized,
                   pca_fit_columns>>

\* handle_pca fits the projection on df_normalized and returns the components
PcaFit ==
    /\ pipe_pc = "normalized"
    /\ ~IsEmpty(df_normalized)
    /\ PcaFitOk(df_normalized)
    /\ pca_fit_columns' = PcaFitColumns(df_normalized)
    /\ df_pca' = handle_pca(df_normalized, loaded_df,
                            PcaMarkerArg(p_training_mode, p_result_marker))
    /\ pipe_pc' = "reduced"
    /\ UNCHANGED <<notPipe, pipeInputs, df_normalized>>

\* Schemas of the loaded table: nf float64, ni int64 and nb bool feature
\* columns, then the label column "marker" of dtype ld (or no label column)
FeatureColumns(nf, ni, nb) ==
    [ k \in 1..nf |-> Column("f" \o ToString(k), "float64") ]
    \o [ k \in 1..ni |-> Column("i" \o ToString(k), "int64") ]
    \o [ k \in 1..nb |-> Column("b" \o ToString(k), "bool") ]

LoadedTables ==
    { Table(FeatureColumns(nf, ni, nb)
            \o (IF ld = "absent" THEN << >> ELSE << Column("marker", ld) >>),
            n) :
        nf \in {0, n_components - 1, n_components},
        ni \in {0, 1}, nb \in {0, 1},
        ld \in {"absent", "float64", "int64", "bool"},
        n \in {0, n_components - 1, n_components} }
    \cup { NoTable }

PipeInit ==
    /\ pipe_pc = "loaded"
    /\ loaded_df \in LoadedTables
    /\ p_training_mode \in BOOLEAN
    /\ p_result_marker \in {"marker", "missing", NoMarker}
    /\ df_normalized = NoTable
    /\ pca_fit_columns = {}
    /\ df_pca = NoTable

PipeNext ==
    \/ NormalizeFails
    \/ NormalizeOk
    \/ PcaNoInput
    \/ PcaFitRaises
    \/ PcaFit

-----------------------------------------------------------------------------
\* calc_utils.py : prepare_df, the columns its labels are computed from (the
\* close averages of lines 159-172) and its labelling and cleaning (lines
\* 774-788).  A cell is the exact rational v / den, or null (NaN).

min_df_len == 200
averages_timeperiods == <<3, 5, 7, 14, 20, 28>>
markers_periods == <<14, 28>>
success_threshold == 5
drop_threshold == (0 - 2)

Cell(dtype, v, den) == [dtype |-> dtype, null |-> FALSE, v |-> v, den |-> den]
NaN == [dtype |-> "float64", null |-> TRUE, v |-> 0, den |-> 1]
BoolCell(b) == Cell("bool", IF b THEN 1 ELSE 0, 1)

Raised == [kind |-> "raised", table |-> <<>>]
Returned(table) == [kind |-> "df", table |-> table]
LabPending == [kind |-> "pending", table |-> <<>>]

SetMax(S) == CHOOSE x \in S : \A z \in S : z <= x
SetMin(S) == CHOOSE x \in S : \A z \in S : x <= z

RECURSIVE SumRange(_, _, _)
SumRange(col, a, b) ==
    IF a > b THEN 0 ELSE col[b].v + SumRange(col, a, b - 1)

\* Line 160: close.rolling(window=p).mean(), null until p rows are in the
\* window; the mean is carried as (sum of the window) / p
rolling_mean(col, p) ==
    [ t \in 1..Len(col) |->
        IF t >= p THEN Cell("float64", SumRange(col, t - p + 1, t), p)
        ELSE NaN ]

\* Line 171: rolling(window=p).max() over rows t-p+1 .. t, null while one of
\* them is null (all cells of a rolling_mean column share the denominator p)
rolling_max(col, p) ==
    [ t \in 1..Len(col) |->
        IF t >= p /\ \A k \in (t - p + 1)..t : ~col[k].null
        THEN Cell("float64", SetMax({ col[k].v : k \in (t - p + 1)..t }),
                  col[t].den)
        ELSE NaN ]

\* Line 172: rolling(window=p).min() over rows t-p+1 .. t
rolling_min(col, p) ==
    [ t \in 1..Len(col) |->
        IF t >= p /\ \A k \in (t - p + 1)..t : ~col[k].null
        THEN Cell("float64", SetMin({ col[k].v : k \in (t - p + 1)..t }),
                  col[t].den)
        ELSE NaN ]

\* Line 776: (close.shift(-m) - close) / close * 100 if regresion else 0
marker_close_pct_change(close, m, reg) ==
    [ t \in 1..Len(close) |->
        IF ~reg THEN Cell("int64", 0, 1)
        ELSE IF t + m <= Len(close)
             THEN Cell("float64", (close[t + m].v - close[t].v) * 100,
                       close[t].v)
             ELSE NaN ]

\* (column - close) / close * 100 compared with a threshold; a comparison
\* with NaN is False.  With column = v / den and close > 0:
\* (v/den - c) / c * 100 >= th  <=>  (v - den*c) * 100 >= th * den * c
PctOverCloseGe(cell, c, th) ==
    ~cell.null /\ (cell.v - cell.den * c) * 100 >= th * cell.den * c
PctOverCloseGt(cell, c, th) ==
    ~cell.null /\ (cell.v - cell.den * c) * 100 > th * cell.den * c

\* Lines 778-781: the classification label, from the columns max_close_in_m
\* and min_close_in_m of lines 171-172, if clasification else 0
marker_close_trade_success(close, maxc, minc, cls) ==
    [ t \in 1..Len(close) |->
        IF ~cls THEN Cell("int64", 0, 1)
        ELSE BoolCell(/\ PctOverCloseGe(maxc[t], close[t].v, success_threshold)
                      /\ PctOverCloseGt(minc[t], close[t].v, drop_threshold)) ]

\* Lines 785-786: fillna(0), then the bool columns as int
CleanCell(c) ==
    IF c.null THEN Cell(c.dtype, 0, 1)
    ELSE IF c.dtype = "bool" THEN Cell("int64", c.v, c.den)
    ELSE c

CleanTable(table) ==
    [ name \in DOMAIN table |->
        [ t \in 1..Len(table[name]) |-> CleanCell(table[name][t]) ] ]

ColName(prefix, p) == prefix \o ToString(p)
RegressionName(m) ==
    "marker_close_pct_change_in_next_" \o ToString(m) \o "_periods"
ClassificationName(m) ==
    "marker_close_trade_success_in_next_" \o ToString(m) \o "_periods"

labInputs == <<lab_close, regresion, clasification>>

\* Lines 146-147: df is None or empty or shorter than min_df_len; prepare_df
\* is not decorated, the ValueError leaves the call
LabRaises ==
    /\ lab_pc = "call"
    /\ Len(lab_close) < min_df_len
    /\ lab_result' = Raised
    /\ lab_pc' = "done"
    /\ UNCHANGED <<notLabel, labInputs, lab_k, lab_table>>

\* Lines 149-153: result = df.copy(), close read as numbers
LabStart ==
    /\ lab_pc = "call"
    /\ Len(lab_close) >= min_df_len
    /\ lab_table' = ("close" :> [ t \in 1..Len(lab_close) |->
                                    Cell("float64", lab_close[t], 1) ])
    /\ lab_k' = 1
    /\ lab_pc' = "averages"
    /\ UNCHANGED <<notLabel, labInputs, lab_result>>

\* Lines 159-172: one pass of the loop over averages_timeperiods
LabAverage ==
    /\ lab_pc = "averages"
    /\ lab_k <= Len(averages_timeperiods)
    /\ LET p == averages_timeperiods[lab_k]
           ma == rolling_mean(lab_table["close"], p)
       IN lab_table' = (ColName("close_ma_", p) :> ma)
                       @@ (ColName("max_close_in_", p) :> rolling_max(ma, p))
                       @@ (ColName("min_close_in_", p) :> rolling_min(ma, p))
                       @@ lab_table
    /\ lab_k' = lab_k + 1
    /\ UNCHANGED <<notLabel, labInputs, lab_pc, lab_result>>

\* The loop over averages_timeperiods ends; lines 175-771 add the other
\* indicator columns, none of which the labels read
LabAveragesDone ==
    /\ lab_pc = "averages"
    /\ lab_k > Len(averages_timeperiods)
    /\ lab_k' = 1
    /\ lab_pc' = "markers"
    /\ UNCHANGED <<notLabel, labInputs, lab_table, lab_result>>

\* Lines 774-781: one pass of the loop over markers_periods
LabMarker ==
    /\ lab_pc = "markers"
    /\ lab_k <= Len(markers_periods)
    /\ LET m == markers_periods[lab_k]
       IN lab_table' =
            (RegressionName(m) :>
                marker_close_pct_change(lab_table["close"], m, regresion))
            @@ (ClassificationName(m) :>
                marker_close_trade_success(lab_table["close"],
                    lab_table[ColName("max_close_in_", m)],
                    lab_table[ColName("min_close_in_", m)], clasification))
            @@ lab_table
    /\ lab_k' = lab_k + 1
    /\ UNCHANGED <<notLabel, labInputs, lab_pc, lab_result>>

\* Lines 784-789: drop() without inplace (no effect), fillna(0), bool as int,
\* return result
LabReturn ==
    /\ lab_pc = "markers"
    /\ lab_k > Len(markers_periods)
    /\ lab_table' = CleanTable(lab_table)
    /\ lab_result' = Returned(CleanTable(lab_table))
    /\ lab_pc' = "done"
    /\ UNCHANGED <<notLabel, labInputs, lab_k>>

\* Close columns handed to prepare_df: min_df_len - 1 or min_df_len rows at
\* BasePrice, the last rows (up to MaxTail of them) at prices of TailPrices
BasePrice == 100
TailPrices == {90, 98, 100, 105, 110}

CloseColumns ==
    { [ t \in 1..n |-> IF t <= n - Len(tail) THEN BasePrice
                       ELSE tail[t - (n - Len(tail))] ] :
        n \in {min_df_len - 1, min_df_len},
        tail \in SeqsUpTo(TailPrices, MaxTail) }

LabelInit ==
    /\ lab_pc = "call"
    /\ lab_close \in CloseColumns
    /\ regresion \in BOOLEAN
    /\ clasification \in BOOLEAN
    /\ lab_k = 0
    /\ lab_table = <<>>
    /\ lab_result = LabPending

LabelNext ==
    \/ LabRaises
    \/ LabStart
    \/ LabAverage
    \/ LabAveragesDone
    \/ LabMarker
    \/ LabReturn

-----------------------------------------------------------------------------
\* utils/df_utils.py : prepare_ml_df and the steps it calls, on the table's
\* columns.  A step is the list of its assignments; an assignment reads
\* columns (KeyError if one is missing), then writes or drops columns.

Stmt(reads, writes) ==
    [reads |-> reads, writes |-> writes, drops |-> {}, future |-> FALSE,
     fill |-> FALSE]

\* Lines 455-459
handle_initial_ml_df_preparaition ==
    << Stmt({"open"}, {"open"}), Stmt({"low"}, {"low"}),
       Stmt({"high"}, {"high"}), Stmt({"close"}, {"close"}),
       Stmt({"volume"}, {"volume"}) >>

\* Lines 243-252
calculate_ml_rsi(general_timeperiod) ==
    LET rsi == "rsi_" \o ToString(general_timeperiod)
    IN << Stmt({"close"}, {rsi}),
          Stmt({rsi}, {rsi \o "_buy_signal"}),
          Stmt({rsi}, {rsi \o "_sell_signal"}) >>

\* Lines 313-331
calculate_ml_macd(macd_timeperiod, macd_signalperiod) ==
    LET macd == "macd_" \o ToString(macd_timeperiod)
        signal == "macd_signal_" \o ToString(macd_signalperiod)
    IN << Stmt({"close"}, {macd, signal}),
          Stmt({macd, signal}, {"macd_histogram_" \o ToString(macd_timeperiod)}),
          Stmt({macd, signal}, {"macd_buy_signal"}),
          Stmt({macd, signal}, {"macd_sell_signal"}) >>

\* Lines 276-289
calculate_ml_ema(ema_fast_timeperiod, ema_slow_timeperiod) ==
    LET fast == "ema_" \o ToString(ema_fast_timeperiod)
        slow == "ema_" \o ToString(ema_slow_timeperiod)
    IN << Stmt({"close"}, {fast}), Stmt({"close"}, {slow}),
          Stmt({fast, slow}, {"ema_buy_signal"}),
          Stmt({fast, slow}, {"ema_sell_signal"}) >>

\* Lines 355-364
calculate_ml_bollinger_bands ==
    << Stmt({"close"}, {"upper_band", "middle_band", "lower_band"}),
       Stmt({"close", "lower_band"}, {"bollinger_buy_signal"}),
       Stmt({"close", "upper_band"}, {"bollinger_sell_signal"}) >>

\* Lines 425-427: the column names are literals, not built from the settings
calculate_ml_rsi_macd_ratio_and_diff ==
    << Stmt({"rsi_14", "macd_histogram_12"}, {"rsi_macd_ratio"}),
       Stmt({"macd_signal_9", "macd_histogram_12"}, {"macd_signal_diff"}) >>

\* Lines 387-400
calculate_ml_time_patterns ==
    << Stmt({"close_time"}, {"close_time"}),
       Stmt({"close_time"}, {"close_time_hour"}),
       Stmt({"close_time"}, {"close_time_weekday"}),
       Stmt({"close_time"}, {"close_time_month"}),
       Stmt({"close_time_hour"}, {"hour_sin"}),
       Stmt({"close_time_hour"}, {"hour_cos"}),
       Stmt({"close_time_weekday"}, {"weekday_sin"}),
       Stmt({"close_time_weekday"}, {"weekday_cos"}),
       Stmt({"close_time_month"}, {"month_sin"}),
       Stmt({"close_time_month"}, {"month_cos"}),
       Stmt({"close_time_weekday"}, {"is_weekend"}) >>

\* Lines 37-47
find_ml_hammer_patterns ==
    << Stmt({"high", "close", "open", "low"}, {"hammer"}),
       Stmt({"hammer", "close_time_hour"}, {"is_hammer_morning"}),
       Stmt({"hammer", "close_time_weekday"}, {"is_hammer_weekend"}) >>

\* Lines 83-97
find_ml_morning_star_patterns ==
    << Stmt({"close", "open"}, {"morning_star"}),
       Stmt({"morning_star", "close_time_hour"}, {"is_morning_star_morning"}),
       Stmt({"morning_star", "close_time_weekday"},
            {"is_morning_star_weekend"}) >>

\* Lines 133-148
find_ml_bullish_engulfing_patterns ==
    << Stmt({"open", "close"}, {"bullish_engulfing"}),
       Stmt({"bullish_engulfing", "close_time_hour"},
            {"is_bullish_engulfing_morning"}),
       Stmt({"bullish_engulfing", "close_time_weekday"},
            {"is_bullish_engulfing_weekend"}) >>

\* Lines 179-182: for each column, its pct_change, then its shift(lag_period)
RECURSIVE calculate_ml_pct_change_and_lags(_, _)
calculate_ml_pct_change_and_lags(column_names_list, lag_period) ==
    IF column_names_list = <<>> THEN <<>>
    ELSE << Stmt({Head(column_names_list)},
                 {Head(column_names_list) \o "_pct_change"}),
            Stmt({Head(column_names_list)},
                 {Head(column_names_list) \o "_lag_" \o ToString(lag_period)}) >>
         \o calculate_ml_pct_change_and_lags(Tail(column_names_list), lag_period)

\* Lines 206-218
calculate_ml_momentum_signals ==
    << Stmt({"close"}, {"is_support"}), Stmt({"close"}, {"is_resistance"}),
       Stmt({"close_pct_change"}, {"momentum_positive"}),
       Stmt({"close_pct_change"}, {"momentum_negative"}),
       Stmt({"close_pct_change"}, {"trend_reversal_signal"}) >>

\* Lines 486-488: close.shift(-marker_period), the one read of later rows
add_ml_regression_etiquete_column(m) ==
    << [Stmt({"close"}, {RegressionName(m)}) EXCEPT !.future = TRUE] >>

\* Lines 524-530: reads max_close_in_{m} and min_close_in_{m}, columns that
\* no step of df_utils.py writes
add_ml_classification_etiquete(m) ==
    << Stmt({ColName("max_close_in_", m), "close", ColName("min_close_in_", m)},
            {ClassificationName(m)}) >>

\* Lines 557-561: drop(columns=..., inplace=True) raises KeyError if one of
\* the columns is missing; fillna(0); bool columns as int
handle_final_ml_df_cleaninig(columns_to_drop) ==
    << [Stmt(columns_to_drop, {}) EXCEPT !.drops = columns_to_drop],
       [Stmt({}, {}) EXCEPT !.fill = TRUE],
       Stmt({}, {}) >>

\* Lines 636-644
columns_to_drop ==
    {"open_time", "close_time", "ignore", "quote_asset_volume",
     "number_of_trades", "taker_buy_base_asset_volume",
     "taker_buy_quote_asset_volume"}

\* A step body run on the columns cols: assignments in order until one reads
\* a missing column; what was assigned before stays (the table is mutated in
\* place)
RECURSIVE RunStmts(_, _, _)
RunStmts(stmts, k, st) ==
    IF k > Len(stmts) THEN st
    ELSE IF ~(stmts[k].reads \subseteq st.cols)
         THEN [st EXCEPT !.failed = TRUE]
         ELSE RunStmts(stmts, k + 1,
                  [cols |-> (st.cols \ stmts[k].drops) \cup stmts[k].writes,
                   failed |-> FALSE,
                   future |-> st.future \/ stmts[k].future,
                   filled |-> st.filled \/ stmts[k].fill])

\* The lines of prepare_ml_df after result = df.copy(): reads of settings
\* keys and calls of steps
ReadSetting(key) == [op |-> "setting", name |-> key, stmts |-> <<>>]
Call(name, stmts) == [op |-> "call", name |-> name, stmts |-> stmts]

\* settings[key] where the key exists
Get(s, key) == IF key \in DOMAIN s THEN s[key] ELSE 0

\* Lines 595-621
IndicatorOps(s) ==
    << Call("handle_initial_ml_df_preparaition",
            handle_initial_ml_df_preparaition),
       ReadSetting("general_timeperiod"), ReadSetting("bollinger_timeperiod"),
       ReadSetting("bollinger_nbdev"), ReadSetting("macd_timeperiod"),
       ReadSetting("macd_signalperiod"), ReadSetting("ema_fast_timeperiod"),
       ReadSetting("ema_slow_timeperiod"), ReadSetting("rsi_buy_value"),
       ReadSetting("rsi_sell_value"),
       Call("calculate_ml_rsi", calculate_ml_rsi(Get(s, "general_timeperiod"))),
       Call("calculate_ml_macd",
            calculate_ml_macd(Get(s, "macd_timeperiod"),
                              Get(s, "macd_signalperiod"))),
       Call("calculate_ml_ema",
            calculate_ml_ema(Get(s, "ema_fast_timeperiod"),
                             Get(s, "ema_slow_timeperiod"))),
       Call("calculate_ml_bollinger_bands", calculate_ml_bollinger_bands),
       Call("calculate_ml_rsi_macd_ratio_and_diff",
            calculate_ml_rsi_macd_ratio_and_diff),
       Call("calculate_ml_time_patterns", calculate_ml_time_patterns),
       Call("find_ml_hammer_patterns", find_ml_hammer_patterns),
       Call("find_ml_morning_star_patterns", find_ml_morning_star_patterns),
       Call("find_ml_bullish_engulfing_patterns",
            find_ml_bullish_engulfing_patterns),
       ReadSetting("lag_period"),
       Call("calculate_ml_pct_change_and_lags",
            calculate_ml_pct_change_and_lags(
                << "close", "volume",
                   "rsi_" \o ToString(Get(s, "general_timeperiod")) >>,
                Get(s, "lag_period"))),
       Call("calculate_ml_momentum_signals", calculate_ml_momentum_signals) >>

\* Mutant: the labels are added whatever training_mode is
LabelOps_unguarded(s, tm, reg, cls) ==
    << ReadSetting("marker_periods") >>
    \o (IF reg
        THEN << Call("add_ml_regression_etiquete",
                     add_ml_regression_etiquete_column(
                         Get(s, "marker_periods"))) >>
        ELSE << >>)
    \o (IF cls
        THEN << ReadSetting("success_threshold"),
                ReadSetting("drop_threshold"),
                Call("add_ml_classification_etiquete",
                     add_ml_classification_etiquete(
                         Get(s, "marker_periods"))) >>
        ELSE << >>)

\* Lines 623-634
LabelOps(s, tm, reg, cls) ==
    IF ~tm THEN << >>
    ELSE << ReadSetting("marker_periods") >>
         \o (IF reg
             THEN << Call("add_ml_regression_etiquete",
                          add_ml_regression_etiquete_column(
                              Get(s, "marker_periods"))) >>
             ELSE << >>)
         \o (IF cls
             THEN << ReadSetting("success_threshold"),
                     ReadSetting("drop_threshold"),
                     Call("add_ml_classification_etiquete",
                          add_ml_classification_etiquete(
                              Get(s, "marker_periods"))) >>
             ELSE << >>)

\* Lines 595-645
Program(s, tm, reg, cls) ==
    IndicatorOps(s) \o LabelOps(s, tm, reg, cls)
    \o << Call("handle_final_ml_df_cleaninig",
               handle_final_ml_df_cleaninig(columns_to_drop)) >>

PrepNone == [kind |-> "None", columns |-> {}, nrows |-> 0]
PrepPending == [kind |-> "pending", columns |-> {}, nrows |-> 0]
PrepTable(cols, n) == [kind |-> "df", columns |-> cols, nrows |-> n]
NoSettings == [kind |-> "None", items |-> <<>>]
Settings(items) == [kind |-> "dict", items |-> items]

\* df is None or df.empty
PrepEmpty(df) == df.kind = "None" \/ df.nrows = 0 \/ df.columns = {}

prepArgs == <<prep_settings, prep_training_mode, prep_regression,
              prep_classification>>

prepInputs == <<prep_df, prepArgs, prep_prev, prep_calls>>

ThisProgram ==
    Program(prep_settings.items, prep_training_mode, prep_regression,
            prep_classification)

StepState == [cols |-> prep_cols, failed |-> FALSE, future |-> prep_future,
              filled |-> prep_filled]

\* Lines 587-591 and the decorator: ValueError, the call returns None
PrepGuardFails ==
    /\ prep_pc = "call"
    /\ prep_settings.kind = "None" \/ PrepEmpty(prep_df)
    /\ prep_result' = PrepNone
    /\ prep_pc' = "done"
    /\ UNCHANGED <<notPrep, prepInputs, prep_alias, prep_ip, prep_cols, prep_filled,
                   prep_failed, prep_future, prep_called>>

\* Mutant: result = df, the caller's own object
copy_reference(df) == [columns |-> df.columns, alias |-> TRUE]

\* DataFrame.copy(): a new object with the same columns and values
copy(df) == [columns |-> df.columns, alias |-> FALSE]

\* Line 593: result = df.copy()
PrepCopy ==
    /\ prep_pc = "call"
    /\ prep_settings.kind # "None" /\ ~PrepEmpty(prep_df)
    /\ prep_cols' = copy(prep_df).columns
    /\ prep_alias' = copy(prep_df).alias
    /\ prep_ip' = 1
    /\ prep_pc' = "run"
    /\ UNCHANGED <<notPrep, prepInputs, prep_filled, prep_failed, prep_future,
                   prep_called, prep_result>>

\* settings[key], the key is there
PrepReadSetting ==
    /\ prep_pc = "run"
    /\ prep_ip <= Len(ThisProgram)
    /\ ThisProgram[prep_ip].op = "setting"
    /\ ThisProgram[prep_ip].name \in DOMAIN prep_settings.items
    /\ prep_ip' = prep_ip + 1
    /\ UNCHANGED <<notPrep, prepInputs, prep_alias, prep_pc, prep_cols, prep_filled,
                   prep_failed, prep_future, prep_called, prep_result>>

\* settings[key] raises KeyError inside prepare_ml_df: its decorator logs it
\* and the call returns None
PrepSettingMissing ==
    /\ prep_pc = "run"
    /\ prep_ip <= Len(ThisProgram)
    /\ ThisProgram[prep_ip].op = "setting"
    /\ ThisProgram[prep_ip].name \notin DOMAIN prep_settings.items
    /\ prep_result' = PrepNone
    /\ prep_pc' = "done"
    /\ UNCHANGED <<notPrep, prepInputs, prep_alias, prep_ip, prep_cols, prep_filled,
                   prep_failed, prep_future, prep_called>>

\* A step runs to its return
PrepCallOk ==
    /\ prep_pc = "run"
    /\ prep_ip <= Len(ThisProgram)
    /\ ThisProgram[prep_ip].op = "call"
    /\ LET st == RunStmts(ThisProgram[prep_ip].stmts, 1, StepState)
       IN /\ ~st.failed
          /\ prep_cols' = st.cols
          /\ prep_future' = st.future
          /\ prep_filled' = st.filled
          /\ prep_df' = IF prep_alias
                        THEN [prep_df EXCEPT !.columns = st.cols]
                        ELSE prep_df
    /\ prep_called' = prep_called \cup {ThisProgram[prep_ip].name}
    /\ prep_ip' = prep_ip + 1
    /\ UNCHANGED <<notPrep, prepArgs, prep_prev, prep_calls,
                   prep_alias, prep_pc, prep_failed, prep_result>>

\* A step raises: its own decorator logs the error and returns None, which
\* prepare_ml_df does not look at; the next line runs on the table as the
\* step left it
PrepCallFails ==
    /\ prep_pc = "run"
    /\ prep_ip <= Len(ThisProgram)
    /\ ThisProgram[prep_ip].op = "call"
    /\ LET st == RunStmts(ThisProgram[prep_ip].stmts, 1, StepState)
       IN /\ st.failed
          /\ prep_cols' = st.cols
          /\ prep_future' = st.future
          /\ prep_filled' = st.filled
          /\ prep_df' = IF prep_alias
                        THEN [prep_df EXCEPT !.columns = st.cols]
                        ELSE prep_df
    /\ prep_failed' = prep_failed \cup {ThisProgram[prep_ip].name}
    /\ prep_called' = prep_called \cup {ThisProgram[prep_ip].name}
    /\ prep_ip' = prep_ip + 1
    /\ UNCHANGED <<notPrep, prepArgs, prep_prev, prep_calls,
                   prep_alias, prep_pc, prep_result>>

\* Line 647: return result
PrepReturn ==
    /\ prep_pc = "run"
    /\ prep_ip > Len(ThisProgram)
    /\ prep_result' = PrepTable(prep_cols, prep_df.nrows)
    /\ prep_pc' = "done"
    /\ UNCHANGED <<notPrep, prepInputs, prep_alias, prep_ip, prep_cols, prep_filled,
                   prep_failed, prep_future, prep_called>>

\* The caller calls prepare_ml_df once more with the arguments it still
\* holds; the locals of the call before are gone
PrepCallAgain ==
    /\ prep_pc = "done"
    /\ prep_calls < MaxPrepCalls
    /\ prep_prev' = prep_result
    /\ prep_calls' = prep_calls + 1
    /\ prep_pc' = "call"
    /\ prep_ip' = 0
    /\ prep_cols' = {}
    /\ prep_alias' = FALSE
    /\ prep_filled' = FALSE
    /\ prep_failed' = {}
    /\ prep_future' = FALSE
    /\ prep_called' = {}
    /\ prep_result' = PrepPending
    /\ UNCHANGED <<notPrep, prep_df, prepArgs>>

\* The columns of a fetched table (api_utils.py lines 222-227)
OhlcvColumns ==
    {"open_time", "open", "high", "low", "close", "volume", "close_time",
     "quote_asset_volume", "number_of_trades", "taker_buy_base_asset_volume",
     "taker_buy_quote_asset_volume", "ignore"}

PrepTables ==
    { PrepTable(OhlcvColumns \ missing, n) :
        missing \in {{}, {"close_time"}, {"volume"}, {"ignore"}, {"close"}},
        n \in 0..MaxPrepRows }
    \cup { PrepNone }

SettingsKeys ==
    {"general_timeperiod", "bollinger_timeperiod", "bollinger_nbdev",
     "macd_timeperiod", "macd_signalperiod", "ema_fast_timeperiod",
     "ema_slow_timeperiod", "rsi_buy_value", "rsi_sell_value", "lag_period",
     "marker_periods", "success_threshold", "drop_threshold"}

\* A settings dictionary: general_timeperiod g, the keys of missing left out
SettingsDict(g, missing) ==
    Settings([ key \in SettingsKeys \ missing |->
        CASE key = "general_timeperiod" -> g
          [] key = "bollinger_timeperiod" -> 20
          [] key = "bollinger_nbdev" -> 2
          [] key = "macd_timeperiod" -> 12
          [] key = "macd_signalperiod" -> 9
          [] key = "ema_fast_timeperiod" -> 9
          [] key = "ema_slow_timeperiod" -> 21
          [] key = "rsi_buy_value" -> 30
          [] key = "rsi_sell_value" -> 70
          [] key = "lag_period" -> 1
          [] key = "marker_periods" -> 14
          [] key = "success_threshold" -> 5
          [] OTHER -> 0 - 2 ])

PrepSettings ==
    { SettingsDict(g, missing) :
        g \in {7, 14},
        missing \in {{}, {"general_timeperiod"}, {"lag_period"},
                     {"marker_periods"}, {"drop_threshold"}} }
    \cup { NoSettings }

PrepInit ==
    /\ prep_pc = "call"
    /\ prep_df \in PrepTables
    /\ prep_settings \in PrepSettings
    /\ prep_training_mode \in BOOLEAN
    /\ prep_regression \in BOOLEAN
    /\ prep_classification \in BOOLEAN
    /\ prep_ip = 0
    /\ prep_cols = {}
    /\ prep_filled = FALSE
    /\ prep_failed = {}
    /\ prep_future = FALSE
    /\ prep_called = {}
    /\ prep_result = PrepPending
    /\ prep_alias = FALSE
    /\ prep_prev = PrepPending
    /\ prep_calls = 1

PrepNext ==
    \/ PrepGuardFails
    \/ PrepCopy
    \/ PrepReadSetting
    \/ PrepSettingMissing
    \/ PrepCallOk
    \/ PrepCallFails
    \/ PrepReturn
    \/ PrepCallAgain

-----------------------------------------------------------------------------
\* utils/ml_utils.py : normalize_df on the table's values, called as
\* scripts/lstm_predict.py calls it on each table it is given.  A cell of the
\* input is a natural number, +inf or -inf; a scaled cell is the binary64
\* value sklearn's MinMaxScaler(feature_range=(0, 1)) computes for it.

\* IEEE-754 binary64 arithmetic on the non-negative values the scaler meets.
\* A natural number is its bits, lowest first, or its limbs (digits in base
\* 2^15, lowest first); a double is m * 2^e with m odd, of at most
\* mantissa_bits bits (or m = 0 and e = 0).
mantissa_bits == 53

Pow2(n) == <<1, 2, 4, 8, 16, 32, 64, 128, 256, 512, 1024, 2048, 4096, 8192,
             16384, 32768>>[n + 1]

\* The limbs of bits b
ToLimbs(b) ==
    [ w \in 1..((Len(b) + 14) \div 15) |->
        LET Bit(j) == IF 15 * (w - 1) + j <= Len(b)
                      THEN b[15 * (w - 1) + j] * Pow2(j - 1) ELSE 0
        IN Bit(1) + Bit(2) + Bit(3) + Bit(4) + Bit(5) + Bit(6) + Bit(7)
           + Bit(8) + Bit(9) + Bit(10) + Bit(11) + Bit(12) + Bit(13)
           + Bit(14) + Bit(15) ]

\* The bits of limbs l
ToBits(l) ==
    [ j \in 1..(15 * Len(l)) |->
        (l[((j - 1) \div 15) + 1] \div Pow2((j - 1) % 15)) % 2 ]

\* l * x + carry on limbs, for naturals x, carry below 2^15
RECURSIVE MulSmall(_, _, _)
MulSmall(l, x, carry) ==
    IF l = <<>> THEN <<carry>>
    ELSE <<(l[1] * x + carry) % 32768>>
         \o MulSmall(Tail(l), x, (l[1] * x + carry) \div 32768)

\* Long division of limbs l by a natural d below 2^15, from limb pos down:
\* the quotient's limbs and the remainder
RECURSIVE DivSmall(_, _, _, _, _)
DivSmall(l, d, pos, rem, quot) ==
    IF pos = 0 THEN [q |-> quot, rem |-> rem]
    ELSE DivSmall(l, d, pos - 1, (32768 * rem + l[pos]) % d,
                  <<(32768 * rem + l[pos]) \div d>> \o quot)

\* a - b - borrow on limbs, for a >= b
RECURSIVE SubLimbs(_, _, _)
SubLimbs(a, b, borrow) ==
    IF a = <<>> THEN <<>>
    ELSE LET diff == a[1] - (IF b = <<>> THEN 0 ELSE b[1]) - borrow
         IN <<diff % 32768>>
            \o SubLimbs(Tail(a), IF b = <<>> THEN <<>> ELSE Tail(b),
                        IF diff < 0 THEN 1 ELSE 0)

\* The double m * 2^e for bits m: the bits from the lowest 1 to the highest
\* 1, the zeros below them moved into the exponent
Double(m, e) ==
    LET ones == { j \in 1..Len(m) : m[j] = 1 }
        lo == CHOOSE j \in ones : \A o \in ones : j <= o
        hi == CHOOSE j \in ones : \A o \in ones : o <= j
    IN IF ones = {} THEN [m |-> <<>>, e |-> 0]
       ELSE [m |-> SubSeq(m, lo, hi), e |-> e + lo - 1]

\* q + 1 on bits
Inc(q) ==
    LET zeros == { j \in 1..(Len(q) + 1) : j > Len(q) \/ q[j] = 0 }
        z == CHOOSE j \in zeros : \A o \in zeros : j <= o
    IN [ j \in 1..(IF z > Len(q) THEN z ELSE Len(q)) |->
           IF j < z THEN 0 ELSE IF j = z THEN 1 ELSE q[j] ]

\* Round to nearest, ties to even: the double nearest to n * 2^e, plus a
\* fraction of the last bit if sticky
Round(n, e, sticky) ==
    LET b == Double(n, 0).m
        t == Len(b) - mantissa_bits
        q == SubSeq(b, t + 1, Len(b))
        rest == sticky \/ \E j \in 1..(t - 1) : b[j] = 1
        up == b[t] = 1 /\ (rest \/ q[1] = 1)
    IN IF t <= 0 THEN Double(n, e)
       ELSE Double(IF up THEN Inc(q) ELSE q, e + Double(n, 0).e + t)

\* b * 2^sh on bits
ShiftLeft(b, sh) == [ j \in 1..sh |-> 0 ] \o b

\* fl(x * s) for a natural x below 2^15 and a double s
FlMul(x, s) == Round(ToBits(MulSmall(ToLimbs(s.m), x, 0)), s.e, FALSE)

\* fl(n / d) for naturals n, d below 2^15, d > 0
FlDiv(n, d) ==
    LET r == DivSmall(<<0, 0, 0, 0, 0, 0, 0, n>>, d, 8, 0, <<>>)
    IN Round(ToBits(r.q), 0 - 105, r.rem # 0)

\* fl(p - q) for doubles p >= q
FlSub(p, q) ==
    LET e == IF p.e < q.e THEN p.e ELSE q.e
    IN Round(ToBits(SubLimbs(ToLimbs(ShiftLeft(p.m, p.e - e)),
                             ToLimbs(ShiftLeft(q.m, q.e - e)), 0)),
             e, FALSE)

\* p <= 1.0 for a double p
LeOne(p) == p.m = <<>> \/ Len(p.m) + p.e <= 0 \/ (p.m = <<1>> /\ p.e = 0)

Num(v) == [kind |-> "num", v |-> v]
PosInf == [kind |-> "inf", v |-> 0]
NegInf == [kind |-> "-inf", v |-> 0]

ValueTable(cols, rows) ==
    [kind |-> "df", columns |-> cols, nrows |-> Len(rows), rows |-> rows]
NoValueTable == [kind |-> "None", columns |-> <<>>, nrows |-> 0, rows |-> <<>>]
NormPending == [kind |-> "pending", columns |-> <<>>, nrows |-> 0, rows |-> <<>>]
NoScaler == [kind |-> "unfitted", params |-> <<>>]

\* Line 59: df = df.replace([np.inf, -np.inf], 0), on every column of df
replace_inf(df) ==
    [ df EXCEPT !.rows =
        [ k \in 1..Len(df.rows) |->
            [ c \in DOMAIN df.rows[k] |->
                IF df.rows[k][c].kind = "num" THEN df.rows[k][c] ELSE Num(0) ] ] ]

\* Lines 60-62: clip(lower=-1.8e308, upper=1.8e308) on df[numeric_features].
\* Both literals are beyond the largest binary64 value, so Python reads them
\* as -inf and +inf.
clip_lower == NegInf
clip_upper == PosInf

CellLe(a, b) ==
    \/ a.kind = "-inf"
    \/ b.kind = "inf"
    \/ (a.kind = "num" /\ b.kind = "num" /\ a.v <= b.v)

clip(cell) ==
    IF ~CellLe(clip_lower, cell) THEN clip_lower
    ELSE IF ~CellLe(cell, clip_upper) THEN clip_upper
    ELSE cell

FeatureNames(df, tm, rm) ==
    { numeric_features(df, tm, rm)[k].name :
        k \in 1..Len(numeric_features(df, tm, rm)) }

\* MinMaxScaler.partial_fit: data_min_, data_max_ of a column
data_min(df, c) == SetMin({ df.rows[k][c].v : k \in 1..Len(df.rows) })
data_max(df, c) == SetMax({ df.rows[k][c].v : k \in 1..Len(df.rows) })

\* sklearn _handle_zeros_in_scale: a constant column is scaled by 1
handle_zeros_in_scale(data_range) == IF data_range = 0 THEN 1 ELSE data_range

\* MinMaxScaler.partial_fit on df[numeric_features]:
\*   scale_ = (1 - 0) / _handle_zeros_in_scale(data_max - data_min)
\*   min_   = 0 - data_min * scale_          (kept here as data_min * scale_)
fit(df, names) ==
    [kind |-> "fitted",
     params |->
        [ c \in names |->
            LET scale_ == FlDiv(1, handle_zeros_in_scale(data_max(df, c)
                                                         - data_min(df, c)))
            IN [scale_ |-> scale_, min_ |-> FlMul(data_min(df, c), scale_)] ]]

\* MinMaxScaler.transform (clip=False): X *= scale_ ; X += min_
transform(x, p) == FlSub(FlMul(x, p.scale_), p.min_)

\* Lines 65-73: the scaled feature columns and, in training mode with a
\* result_marker, the label column read from df as line 59 left it
scaled_table(df, work, tm, rm, sc) ==
    ValueTable(normalize_df(df, tm, rm).columns,
               [ k \in 1..Len(work.rows) |->
                   [ c \in ColumnNames(normalize_df(df, tm, rm)) |->
                       IF c \in FeatureNames(df, tm, rm)
                       THEN transform(work.rows[k][c].v, sc.params[c])
                       ELSE work.rows[k][c] ] ])

normInputs == <<norm_df, norm_training_mode, norm_result_marker>>

\* Lines 42-46 or the scaler raise: the except branch logs and returns None
NormRaises ==
    /\ norm_pc = "call"
    /\ normalize_df(norm_df, norm_training_mode, norm_result_marker) = NoTable
    /\ norm_result' = NoValueTable
    /\ norm_pc' = "returned"
    /\ UNCHANGED <<notNorm, normInputs, norm_work, scaler, norm_prev,
                   norm_calls>>

\* Lines 42-64 and the fit half of scaler.fit_transform (line 66): a new
\* MinMaxScaler is fitted on the table normalize_df was given
NormFit ==
    /\ norm_pc = "call"
    /\ normalize_df(norm_df, norm_training_mode, norm_result_marker) # NoTable
    /\ norm_work' =
         [ replace_inf(norm_df) EXCEPT !.rows =
             [ k \in 1..Len(norm_df.rows) |->
                 [ c \in DOMAIN norm_df.rows[k] |->
                     IF c \in FeatureNames(norm_df, norm_training_mode,
                                           norm_result_marker)
                     THEN clip(replace_inf(norm_df).rows[k][c])
                     ELSE replace_inf(norm_df).rows[k][c] ] ] ]
    /\ scaler' = fit(norm_work',
                     FeatureNames(norm_df, norm_training_mode,
                                  norm_result_marker))
    /\ norm_pc' = "fitted"
    /\ UNCHANGED <<notNorm, normInputs, norm_result, norm_prev, norm_calls>>

\* The transform half of line 66, lines 67-73
NormTransform ==
    /\ norm_pc = "fitted"
    /\ norm_result' = scaled_table(norm_df, norm_work, norm_training_mode,
                                   norm_result_marker, scaler)
    /\ norm_pc' = "returned"
    /\ UNCHANGED <<notNorm, normInputs, norm_work, scaler, norm_prev,
                   norm_calls>>

FeatureValues == {Num(1), Num(6), PosInf, NegInf}
LabelValues == {Num(0), Num(1), PosInf}

RowsOf(cols) ==
    LET names == { cols[k].name : k \in 1..Len(cols) }
    IN { r \in [names -> FeatureValues \cup LabelValues] :
           \A c \in names :
               r[c] \in (IF c = "marker" THEN LabelValues ELSE FeatureValues) }

\* lstm_predict.py lines 125-137, run again once the next candle has closed:
\* the table it normalizes is the earlier table and one more row
NormNextCandle ==
    /\ norm_pc = "returned"
    /\ ~norm_training_mode
    /\ norm_df.kind = "df"
    /\ norm_calls < MaxCalls
    /\ \E r \in RowsOf(norm_df.columns) :
           norm_df' = ValueTable(norm_df.columns, Append(norm_df.rows, r))
    /\ norm_prev' = norm_result
    /\ norm_result' = NormPending
    /\ norm_work' = NoValueTable
    /\ scaler' = NoScaler
    /\ norm_calls' = norm_calls + 1
    /\ norm_pc' = "call"
    /\ UNCHANGED <<notNorm, norm_training_mode, norm_result_marker>>

NormColumns ==
    { << Column("f1", "float64") >>,
      << Column("f1", "float64"), Column("marker", "float64") >> }

NormTables ==
    UNION { { ValueTable(cols, rows) :
                rows \in UNION { [1..n -> RowsOf(cols)] : n \in 0..MaxNormRows } } :
            cols \in NormColumns }

NormInit ==
    /\ norm_pc = "call"
    /\ norm_df \in NormTables \cup { NoValueTable }
    /\ norm_training_mode \in BOOLEAN
    /\ norm_result_marker \in {"marker", NoMarker}
    /\ norm_work = NoValueTable
    /\ scaler = NoScaler
    /\ norm_result = NormPending
    /\ norm_prev = NormPending
    /\ norm_calls = 1

NormNext ==
    \/ NormRaises
    \/ NormFit
    \/ NormTransform
    \/ NormNextCandle

-----------------------------------------------------------------------------
\* scripts/fetch_data.py : fetch_data, the batch driver, with
\* utils/app_utils.py : save_data_to_csv and save_df_info.  Each step of
\* fetch_sequence carries what get_full_historical_klines does when called
\* for it and whether the files of that step can be written.

\* What get_full_historical_klines hands to the driver: a table of nrows
\* rows, None (the decorator swallowed an error, or no data), or an exception
\* that reaches the driver's own except branch (line 114)
FetchedTable(nrows) == [kind |-> "df", nrows |-> nrows]
FetchedNone == [kind |-> "None", nrows |-> 0]
FetchRaised == [kind |-> "raises", nrows |-> 0]

FetchStep(fetched, disk_ok) == [fetched |-> fetched, disk_ok |-> disk_ok]

\* Mutant: the None guard of lines 25-27 is missing
save_data_to_csv_unguarded(data, disk_ok) == disk_ok

\* app_utils.save_data_to_csv, lines 25-35: whether the CSV file is written
save_data_to_csv(data, disk_ok) == data.kind # "None" /\ disk_ok

\* app_utils.save_df_info, lines 88-105: whether the info file is written
save_df_info(df, disk_ok) == df.kind # "None" /\ df.nrows > 0 /\ disk_ok

batchInputs == <<dry_run, fetch_sequence>>

\* Lines 76-93 and 130-135 in dry-run mode: nothing is fetched
BatchDryRun ==
    /\ batch_pc = "start"
    /\ dry_run
    /\ completion_logged' = TRUE
    /\ batch_pc' = "done"
    /\ UNCHANGED <<notBatch, batchInputs, step_no, fetch_calls, csv_files,
                   info_files>>

\* Lines 76-96: the loop over fetch_sequence is entered
BatchEnterLoop ==
    /\ batch_pc = "start"
    /\ ~dry_run
    /\ step_no' = 1
    /\ batch_pc' = "loop"
    /\ UNCHANGED <<notBatch, batchInputs, fetch_calls, csv_files, info_files,
                   completion_logged>>

\* Lines 96-116: the fetch of this step raises; logged, continue
BatchFetchRaises ==
    /\ batch_pc = "loop"
    /\ step_no <= Len(fetch_sequence)
    /\ fetch_sequence[step_no].fetched.kind = "raises"
    /\ fetch_calls' = Append(fetch_calls, step_no)
    /\ step_no' = step_no + 1
    /\ UNCHANGED <<notBatch, batchInputs, batch_pc, csv_files, info_files,
                   completion_logged>>

\* Lines 96-128: the fetch of this step returns (a table or None); both
\* save functions are called with what it returned
BatchFetchReturns ==
    /\ batch_pc = "loop"
    /\ step_no <= Len(fetch_sequence)
    /\ fetch_sequence[step_no].fetched.kind # "raises"
    /\ fetch_calls' = Append(fetch_calls, step_no)
    /\ csv_files' =
         IF save_data_to_csv(fetch_sequence[step_no].fetched,
                             fetch_sequence[step_no].disk_ok)
         THEN csv_files \cup {step_no} ELSE csv_files
    /\ info_files' =
         IF save_df_info(fetch_sequence[step_no].fetched,
                         fetch_sequence[step_no].disk_ok)
         THEN info_files \cup {step_no} ELSE info_files
    /\ step_no' = step_no + 1
    /\ UNCHANGED <<notBatch, batchInputs, batch_pc, completion_logged>>

\* Lines 130-135: the loop is over, the completion is logged
BatchComplete ==
    /\ batch_pc = "loop"
    /\ step_no > Len(fetch_sequence)
    /\ completion_logged' = TRUE
    /\ batch_pc' = "done"
    /\ UNCHANGED <<notBatch, batchInputs, step_no, fetch_calls, csv_files,
                   info_files>>

FetchSteps ==
    { FetchStep(f, d) :
        f \in {FetchedTable(0), FetchedTable(1), FetchedNone, FetchRaised},
        d \in BOOLEAN }

BatchInit ==
    /\ batch_pc = "start"
    /\ dry_run \in BOOLEAN
    /\ fetch_sequence \in UNION { [1..n -> FetchSteps] : n \in 0..MaxSteps }
    /\ step_no = 0
    /\ fetch_calls = <<>>
    /\ csv_files = {}
    /\ info_files = {}
    /\ completion_logged = FALSE

BatchNext ==
    \/ BatchDryRun
    \/ BatchEnterLoop
    \/ BatchFetchRaises
    \/ BatchFetchReturns
    \/ BatchComplete

-----------------------------------------------------------------------------
\* utils/df_utils.py : find_ml_hammer_patterns, find_ml_morning_star_patterns
\* and find_ml_bullish_engulfing_patterns on the values of a table, applied
\* in the order prepare_ml_df calls them (lines 613-615) and then once more
\* to the table they have written to.  Prices are integers; candle_flags
\* holds the boolean columns the detectors have assigned.

\* Mutant: the first d rows read the last rows of the column
shift_wrapping(rows, f, d, k) ==
    [nan |-> FALSE, v |-> rows[((k - d - 1) % Len(rows)) + 1][f]]

\* df[f].shift(d) at row k: the value d rows earlier, NaN on the first d rows
shift(rows, f, d, k) ==
    IF k - d >= 1 THEN [nan |-> FALSE, v |-> rows[k - d][f]]
    ELSE [nan |-> TRUE, v |-> 0]

\* a < b and a > b on float cells: False when either side is NaN
Lt(a, b) == ~a.nan /\ ~b.nan /\ a.v < b.v
Gt(a, b) == Lt(b, a)

\* x / r > 0.6 for integers x and r >= 0 in binary64: x / 0 is +inf, -inf or
\* NaN (0 / 0), and for r > 0 the quotient is above the double 0.6 exactly
\* when x / r > 3 / 5
RatioAbove06(x, r) == IF r = 0 THEN x > 0 ELSE 10 * x > 6 * r

\* Mutant: the first comparison of the hammer reads <
hammer_row_lt(r) ==
    /\ (r.high - r.close) < 2 * (r.open - r.low)
    /\ RatioAbove06(r.close - r.low, r.high - r.low)
    /\ RatioAbove06(r.open - r.low, r.high - r.low)

\* Lines 37-41: the hammer predicate of one row
hammer_row(r) ==
    /\ (r.high - r.close) > 2 * (r.open - r.low)
    /\ RatioAbove06(r.close - r.low, r.high - r.low)
    /\ RatioAbove06(r.open - r.low, r.high - r.low)

\* Lines 44 and 47 (and 91-92, 95, 142-143, 146): the hours 9..12, the
\* weekdays Saturday and Sunday
is_morning(r) == r.close_time_hour >= 9 /\ r.close_time_hour <= 12
is_weekend(r) == r.close_time_weekday \in {5, 6}

\* The three columns a detector assigns: the pattern, and the pattern on a
\* morning and on a weekend, both read from the pattern column just written
PatternColumns(name, rows, pattern) ==
    (name :> [ k \in 1..Len(rows) |-> pattern[k] ])
    @@ (("is_" \o name \o "_morning")
          :> [ k \in 1..Len(rows) |-> pattern[k] /\ is_morning(rows[k]) ])
    @@ (("is_" \o name \o "_weekend")
          :> [ k \in 1..Len(rows) |-> pattern[k] /\ is_weekend(rows[k]) ])

\* Lines 37-47
hammer(rows) ==
    PatternColumns("hammer", rows, [ k \in 1..Len(rows) |-> hammer_row(rows[k]) ])

\* Lines 83-97
morning_star(rows) ==
    PatternColumns("morning_star", rows,
        [ k \in 1..Len(rows) |->
            /\ Lt(shift(rows, "close", 2, k), shift(rows, "open", 2, k))
            /\ Lt(shift(rows, "open", 1, k), shift(rows, "close", 1, k))
            /\ Gt(shift(rows, "close", 0, k), shift(rows, "open", 0, k)) ])

\* Lines 133-148
bullish_engulfing(rows) ==
    PatternColumns("bullish_engulfing", rows,
        [ k \in 1..Len(rows) |->
            /\ Gt(shift(rows, "open", 1, k), shift(rows, "close", 1, k))
            /\ Lt(shift(rows, "open", 0, k), shift(rows, "close", 0, k))
            /\ Lt(shift(rows, "open", 0, k), shift(rows, "close", 1, k))
            /\ Gt(shift(rows, "close", 0, k), shift(rows, "open", 1, k)) ])

\* df[...] = ... : the columns are assigned in place, replacing columns of
\* the same name
Assign(flags, columns) == columns @@ flags

\* The detector calls, in order, made twice
detector_calls ==
    << "hammer", "morning_star", "bullish_engulfing",
       "hammer", "morning_star", "bullish_engulfing" >>

CandleAt(name) ==
    /\ candle_ip < Len(detector_calls)
    /\ detector_calls[candle_ip + 1] = name

\* After the third call the flags of the first application are kept aside
CandleStep(flags) ==
    /\ candle_flags' = flags
    /\ candle_first' = IF candle_ip + 1 = 3 THEN flags ELSE candle_first
    /\ candle_ip' = candle_ip + 1
    /\ UNCHANGED <<notCandle, candle_df>>

\* Lines 34-35, 80-81, 130-131: on an empty table the detector raises, the
\* decorator returns None and the table is as it was
CandleDetectorRaises ==
    /\ candle_ip < Len(detector_calls)
    /\ candle_df = <<>>
    /\ CandleStep(candle_flags)

CandleHammer ==
    /\ CandleAt("hammer")
    /\ candle_df # <<>>
    /\ CandleStep(Assign(candle_flags, hammer(candle_df)))

CandleMorningStar ==
    /\ CandleAt("morning_star")
    /\ candle_df # <<>>
    /\ CandleStep(Assign(candle_flags, morning_star(candle_df)))

CandleBullishEngulfing ==
    /\ CandleAt("bullish_engulfing")
    /\ candle_df # <<>>
    /\ CandleStep(Assign(candle_flags, bullish_engulfing(candle_df)))

PriceLevels == 0..3

Candle(o, h, l, c, hour, weekday) ==
    [open |-> o, high |-> h, low |-> l, close |-> c,
     close_time_hour |-> hour, close_time_weekday |-> weekday]

\* One candle of any shape with high >= low, at 08:00 or 09:00 on a Friday
\* or a Saturday
AnyCandles ==
    { Candle(o, h, l, c, hour, weekday) :
        o \in PriceLevels, c \in PriceLevels,
        h \in PriceLevels, l \in PriceLevels,
        hour \in {8, 9}, weekday \in {4, 5} }

\* Candles without shadows, on a Saturday morning
BodyCandles ==
    { Candle(o, Max(o, c), Min(o, c), c, 9, 5) :
        o \in PriceLevels, c \in PriceLevels }

CandleTables ==
    { <<r>> : r \in { a \in AnyCandles : a.high >= a.low } }
    \cup UNION { [1..n -> BodyCandles] : n \in 0..MaxCandles }

NoFlags == [ c \in {} |-> <<>> ]

CandleInit ==
    /\ candle_ip = 0
    /\ candle_df \in CandleTables
    /\ candle_flags = NoFlags
    /\ candle_first = NoFlags

CandleNext ==
    \/ CandleDetectorRaises
    \/ CandleHammer
    \/ CandleMorningStar
    \/ CandleBullishEngulfing

-----------------------------------------------------------------------------
\* utils/df_utils.py : the feature steps of prepare_ml_df and its regression
\* label on the values of two tables that agree on their first feat_t rows.
\* Each step is applied to both tables; feat_cols_a and feat_cols_b are the
\* columns the two runs hold.  Prices are positive integers and a cell is
\* the exact rational v / den or NaN, so cells that are equal here are equal
\* as binary64 values.

\* Mutant: the shift reads d rows later
shift_column_ahead(col, d) ==
    [ k \in 1..Len(col) |->
        IF k + d >= 1 /\ k + d <= Len(col) THEN col[k + d] ELSE NaN ]

\* Series.shift(d): row k holds the value of row k - d, NaN where that row
\* is outside the table (d < 0 reads later rows)
shift_column(col, d) ==
    [ k \in 1..Len(col) |->
        IF k - d >= 1 /\ k - d <= Len(col) THEN col[k - d] ELSE NaN ]

\* Lines 455-459: the column f of the table as numbers
NumericColumn(rows, f) == [ k \in 1..Len(rows) |-> Cell("float64", rows[k][f], 1) ]

\* Line 181: pct_change() * 100 of a column of positive integers,
\* (col[k] - col[k-1]) / col[k-1] * 100, NaN on the first row
pct_change(col) ==
    [ k \in 1..Len(col) |->
        IF k = 1 THEN NaN
        ELSE Cell("float64", (col[k].v - col[k - 1].v) * 100, col[k - 1].v) ]

\* Lines 179-182 for the column close
pct_change_and_lags(cols, lag_period) ==
    ("close_pct_change" :> pct_change(cols["close"]))
    @@ (("close_lag_" \o ToString(lag_period))
          :> shift_column(cols["close"], lag_period))

\* a == b, a > 0, a < 0 and a * b < 0 on float cells: False when a side is
\* NaN (the denominators are positive)
CellEqual(a, b) == ~a.null /\ ~b.null /\ a.v * b.den = b.v * a.den
Positive(a) == ~a.null /\ a.v > 0
Negative(a) == ~a.null /\ a.v < 0
ProductNegative(a, b) == ~a.null /\ ~b.null /\ a.v * b.v < 0

\* Lines 206-218
momentum_signals(cols, general_timeperiod) ==
    LET close == cols["close"]
        pct == cols["close_pct_change"]
        lowest == rolling_min(close, general_timeperiod)
        highest == rolling_max(close, general_timeperiod)
        before == shift_column(pct, 1)
        rows == 1..Len(close)
    IN ("is_support" :> [ k \in rows |-> BoolCell(CellEqual(close[k], lowest[k])) ])
       @@ ("is_resistance"
             :> [ k \in rows |-> BoolCell(CellEqual(close[k], highest[k])) ])
       @@ ("momentum_positive" :> [ k \in rows |-> BoolCell(Positive(pct[k])) ])
       @@ ("momentum_negative" :> [ k \in rows |-> BoolCell(Negative(pct[k])) ])
       @@ ("trend_reversal_signal"
             :> [ k \in rows |-> BoolCell(ProductNegative(before[k], pct[k])) ])

\* Lines 486-488: (close.shift(-marker_period) - close) / close * 100
regression_etiquete(cols, m) ==
    LET close == cols["close"]
        later == shift_column(close, 0 - m)
    IN RegressionName(m)
         :> [ k \in 1..Len(close) |->
                IF later[k].null THEN NaN
                ELSE Cell("float64", (later[k].v - close[k].v) * 100,
                          close[k].v) ]

\* The boolean columns of the three pattern detectors (lines 613-615)
pattern_flags(rows) ==
    LET flags == hammer(rows) @@ morning_star(rows) @@ bullish_engulfing(rows)
    IN [ c \in DOMAIN flags |->
           [ k \in 1..Len(rows) |-> BoolCell(flags[c][k]) ] ]

\* Lines 613-645 in training mode with regression: the steps in call order
feature_calls ==
    << "find_ml_patterns", "calculate_ml_pct_change_and_lags",
       "calculate_ml_momentum_signals", "add_ml_regression_etiquete",
       "handle_final_ml_df_cleaninig" >>

general_timeperiod == 2

featInputs == <<feat_a, feat_b, feat_t, feat_lag_period, feat_marker_period>>

FeatAt(name) ==
    /\ feat_ip < Len(feature_calls)
    /\ feature_calls[feat_ip + 1] = name
    /\ feat_ip' = feat_ip + 1
    /\ UNCHANGED <<notFeat, featInputs>>

FeatPatterns ==
    /\ FeatAt("find_ml_patterns")
    /\ feat_cols_a' = Assign(feat_cols_a, pattern_flags(feat_a))
    /\ feat_cols_b' = Assign(feat_cols_b, pattern_flags(feat_b))

FeatLags ==
    /\ FeatAt("calculate_ml_pct_change_and_lags")
    /\ feat_cols_a' = Assign(feat_cols_a,
                             pct_change_and_lags(feat_cols_a, feat_lag_period))
    /\ feat_cols_b' = Assign(feat_cols_b,
                             pct_change_and_lags(feat_cols_b, feat_lag_period))

FeatMomentum ==
    /\ FeatAt("calculate_ml_momentum_signals")
    /\ feat_cols_a' = Assign(feat_cols_a,
                             momentum_signals(feat_cols_a, general_timeperiod))
    /\ feat_cols_b' = Assign(feat_cols_b,
                             momentum_signals(feat_cols_b, general_timeperiod))

FeatLabel ==
    /\ FeatAt("add_ml_regression_etiquete")
    /\ feat_cols_a' = Assign(feat_cols_a,
                             regression_etiquete(feat_cols_a, feat_marker_period))
    /\ feat_cols_b' = Assign(feat_cols_b,
                             regression_etiquete(feat_cols_b, feat_marker_period))

FeatClean ==
    /\ FeatAt("handle_final_ml_df_cleaninig")
    /\ feat_cols_a' = CleanTable(feat_cols_a)
    /\ feat_cols_b' = CleanTable(feat_cols_b)

\* Candles that open at 2 and close at 1, 2 or 3, without shadows
FeatCandles == { Candle(2, Max(2, c), Min(2, c), c, 9, 5) : c \in 1..3 }

FeatTables == UNION { [1..n -> FeatCandles] : n \in 1..MaxFeatRows }

LagPeriods == {1, 2}

FeatInit ==
    /\ feat_ip = 0
    /\ feat_a \in FeatTables
    /\ feat_b \in FeatTables
    /\ Len(feat_b) = Len(feat_a)
    /\ feat_t \in 0..Len(feat_a)
    /\ \A k \in 1..feat_t : feat_b[k] = feat_a[k]
    /\ feat_lag_period \in LagPeriods
    /\ feat_marker_period \in 1..MaxMarker
    /\ feat_cols_a = ("close" :> NumericColumn(feat_a, "close"))
    /\ feat_cols_b = ("close" :> NumericColumn(feat_b, "close"))

FeatNext ==
    \/ FeatPatterns
    \/ FeatLags
    \/ FeatMomentum
    \/ FeatLabel
    \/ FeatClean

-----------------------------------------------------------------------------
\* calc_utils.py lines 159-169 (prepare_df) and app_utils.py lines 20-26
\* (calculate_indicator_changes) : the columns X_ma_N, X_change_vs_ma_N and
\* X_pct_change_vs_ma_N of a base column X on its values.  A cell is the
\* exact rational v / den with den > 0, NaN (null), or an infinity (den = 0
\* and v its sign), the three results that binary64 division has.

Infinity(sign) == [dtype |-> "float64", null |-> FALSE, v |-> sign, den |-> 0]
IsInfinite(a) == ~a.null /\ a.den = 0
Sign(x) == IF x > 0 THEN 1 ELSE IF x < 0 THEN 0 - 1 ELSE 0

\* a - b on finite cells, NaN when a side is NaN
FloatSub(a, b) ==
    IF a.null \/ b.null THEN NaN
    ELSE Cell("float64", a.v * b.den - b.v * a.den, a.den * b.den)

\* a / b on finite cells: x / 0 is +inf or -inf, 0 / 0 is NaN
FloatDivide(a, b) ==
    IF a.null \/ b.null THEN NaN
    ELSE IF b.v = 0 THEN (IF a.v = 0 THEN NaN ELSE Infinity(Sign(a.v)))
    ELSE Cell("float64", Sign(b.v) * a.v * b.den, Sign(b.v) * a.den * b.v)

\* a * 100
Times100(a) ==
    IF a.null \/ IsInfinite(a) THEN a ELSE Cell("float64", a.v * 100, a.den)

\* a != 0: True for NaN
NotZero(a) == a.null \/ a.v # 0

\* np.where(condition, x, other) on one row
np_where(condition, x, other) == IF condition THEN x ELSE other

\* calc_utils.py lines 160 and 165-169
guarded_pct_change_vs_ma(col, avg_period) ==
    LET ma == rolling_mean(col, avg_period)
    IN [ X_ma |-> ma,
         X_pct_change_vs_ma |->
           [ t \in 1..Len(col) |->
               np_where(NotZero(ma[t]),
                        Times100(FloatDivide(FloatSub(col[t], ma[t]), ma[t])),
                        Cell("int64", 0, 1)) ] ]

\* app_utils.py lines 22-26
calculate_indicator_changes(col, avg_period) ==
    LET ma == rolling_mean(col, avg_period)
        change == [ t \in 1..Len(col) |-> FloatSub(col[t], ma[t]) ]
    IN [ X_ma |-> ma,
         X_pct_change_vs_ma |->
           [ t \in 1..Len(col) |-> Times100(FloatDivide(change[t], ma[t])) ] ]

NoColumns == [X_ma |-> <<>>, X_pct_change_vs_ma |-> <<>>]

\* prepare_df, past its length check, for one period of averages_timeperiods
MaPrepareDf ==
    /\ ma_pc = "call"
    /\ ma_routine = "prepare_df"
    /\ ma_columns' = guarded_pct_change_vs_ma(ma_series, ma_period)
    /\ ma_pc' = "done"
    /\ UNCHANGED <<notMa, ma_routine, ma_series, ma_period>>

\* calculate_indicator_changes for one period of avg_periods
MaIndicatorChanges ==
    /\ ma_pc = "call"
    /\ ma_routine = "calculate_indicator_changes"
    /\ ma_columns' = calculate_indicator_changes(ma_series, ma_period)
    /\ ma_pc' = "done"
    /\ UNCHANGED <<notMa, ma_routine, ma_series, ma_period>>

\* Values of a base column: a volume or an oscillator around zero
SeriesValues == {0 - 1, 0, 1}

SeriesTails ==
    UNION { [1..n -> { Cell("float64", x, 1) : x \in SeriesValues }] :
              n \in 1..MaxMaRows }

\* A column of min_df_len rows: the value base, then the rows of tail
LongSeries(base, tail) ==
    [ t \in 1..min_df_len |->
        IF t <= min_df_len - Len(tail) THEN Cell("float64", base, 1)
        ELSE tail[t - (min_df_len - Len(tail))] ]

MaInit ==
    /\ ma_pc = "call"
    /\ \/ /\ ma_routine = "prepare_df"
          /\ ma_series \in { LongSeries(base, tail) :
                               base \in {0, 1}, tail \in SeriesTails }
          /\ ma_period \in { averages_timeperiods[1], averages_timeperiods[2] }
       \/ /\ ma_routine = "calculate_indicator_changes"
          /\ ma_series \in SeriesTails
          /\ ma_period \in 1..3
    /\ ma_columns = NoColumns

MaNext ==
    \/ MaPrepareDf
    \/ MaIndicatorChanges

-----------------------------------------------------------------------------
\* utils/ml_utils.py : handle_pca on the rows of its tables.  A row of the
\* output is the position of the row of df_normalized it was projected from
\* and the label cell attached to it; loaded_df is its index labels and the
\* values of its label column, both by row position.

\* Lines 102-104: fit_transform keeps the rows in order, and
\* pd.DataFrame(array) numbers them 0 .. n-1
projected_rows(n) == [ k \in 1..n |-> [index |-> k - 1, source |-> k - 1] ]

\* Line 107, df_reduced[name] = series: the series is reindexed to the index
\* of df_reduced, so the row labelled l receives the value the series holds
\* under the index label l, NaN if it has none (the labels of index differ
\* from each other)
series_reindexed(index, values, label) ==
    IF \E p \in 1..Len(index) : index[p] = label
    THEN [null |-> FALSE,
          v |-> values[CHOOSE p \in 1..Len(index) : index[p] = label]]
    ELSE [null |-> TRUE, v |-> 0]

AlignNone == [kind |-> "None", rows |-> <<>>]
AlignPending == [kind |-> "pending", rows |-> <<>>]

alignInputs == <<align_nrows, align_features, align_index, align_labels,
                 align_marker>>

\* Lines 99-103 and 111-113: df_normalized is empty, or PCA(n_components=50)
\* is fitted to fewer than 50 rows or columns: ValueError, logged, None
AlignRaises ==
    /\ align_pc = "call"
    /\ align_nrows = 0 \/ n_components > Min(align_nrows, align_features)
    /\ align_result' = AlignNone
    /\ align_pc' = "done"
    /\ UNCHANGED <<notAlign, alignInputs>>

\* Lines 102-109
AlignReturns ==
    /\ align_pc = "call"
    /\ align_nrows # 0 /\ n_components <= Min(align_nrows, align_features)
    /\ align_result' =
         [kind |-> "df",
          rows |-> [ k \in 1..align_nrows |->
                      [source |-> projected_rows(align_nrows)[k].source,
                       label |->
                         IF align_marker = "marker"
                         THEN series_reindexed(align_index, align_labels,
                                  projected_rows(align_nrows)[k].index)
                         ELSE [null |-> TRUE, v |-> 0]] ]]
    /\ align_pc' = "done"
    /\ UNCHANGED <<notAlign, alignInputs>>

\* Index labels of a table of n rows: start, start + 1, ... or the same
\* labels in descending order
IndexLabels(order, start, n) ==
    [ k \in 1..n |-> IF order = "ascending" THEN start + (k - 1)
                     ELSE start + (n - k) ]

\* Label values by row position
LabelColumn(phase, n) == [ k \in 1..n |-> (k + phase) % 3 ]

AlignInit ==
    /\ align_pc = "call"
    /\ align_nrows \in {0, n_components - 1, n_components, n_components + 1}
    /\ align_features \in {n_components - 1, n_components}
    /\ \E order \in {"ascending", "descending"}, start \in 0..MaxIndexStart :
          align_index = IndexLabels(order, start, align_nrows)
    /\ \E phase \in 0..2 : align_labels = LabelColumn(phase, align_nrows)
    /\ align_marker \in {"marker", "missing", NoMarker}
    /\ align_result = AlignPending

AlignNext ==
    \/ AlignRaises
    \/ AlignReturns

-----------------------------------------------------------------------------
\* Specifications: one per operation, the other operations idle

FetchIdle ==
    /\ pc = "idle"
    /\ start_in = [type |-> "NoneType", form |-> "none", val |-> 0]
    /\ interval = "1h"
    /\ tz = 0
    /\ now = 0
    /\ start_str = start_in
    /\ start_date = 0
    /\ total_iterations = 0
    /\ iteration = 0
    /\ all_klines = <<>>
    /\ result = NotReturned
    /\ propagated = FALSE
    /\ apiMode = "history"
    /\ apiScript = <<>>
    /\ apiFaults = 0
    /\ apiErrors = 0
    /\ requests = <<>>

SeqIdle ==
    /\ seq_pc = "idle"
    /\ closes = <<>>
    /\ marker_period = 1
    /\ df_reduced = ReducedTable(<<>>, 1)
    /\ none_args = {}
    /\ lookback = 0
    /\ window_size = 0
    /\ result_marker = "marker"
    /\ training_mode = FALSE
    /\ df_features = df_reduced
    /\ i = 0
    /\ X = <<>>
    /\ y = <<>>
    /\ y_rows = <<>>
    /\ X_rows = <<>>
    /\ seq_result = SeqPending

PipeIdle ==
    /\ pipe_pc = "idle"
    /\ loaded_df = NoTable
    /\ p_training_mode = FALSE
    /\ p_result_marker = NoMarker
    /\ df_normalized = NoTable
    /\ pca_fit_columns = {}
    /\ df_pca = NoTable

LabelIdle ==
    /\ lab_pc = "idle"
    /\ lab_close = <<>>
    /\ regresion = FALSE
    /\ clasification = FALSE
    /\ lab_k = 0
    /\ lab_table = <<>>
    /\ lab_result = LabPending

PrepIdle ==
    /\ prep_pc = "idle"
    /\ prep_df = PrepNone
    /\ prep_settings = NoSettings
    /\ prep_training_mode = FALSE
    /\ prep_regression = FALSE
    /\ prep_classification = FALSE
    /\ prep_ip = 0
    /\ prep_cols = {}
    /\ prep_filled = FALSE
    /\ prep_failed = {}
    /\ prep_future = FALSE
    /\ prep_called = {}
    /\ prep_result = PrepPending
    /\ prep_alias = FALSE
    /\ prep_prev = PrepPending
    /\ prep_calls = 0

NormIdle ==
    /\ norm_pc = "idle"
    /\ norm_df = NoValueTable
    /\ norm_training_mode = FALSE
    /\ norm_result_marker = NoMarker
    /\ norm_work = NoValueTable
    /\ scaler = NoScaler
    /\ norm_result = NormPending
    /\ norm_prev = NormPending
    /\ norm_calls = 0

BatchIdle ==
    /\ batch_pc = "idle"
    /\ dry_run = FALSE
    /\ fetch_sequence = <<>>
    /\ step_no = 0
    /\ fetch_calls = <<>>
    /\ csv_files = {}
    /\ info_files = {}
    /\ completion_logged = FALSE

CandleIdle ==
    /\ candle_ip = Len(detector_calls)
    /\ candle_df = <<>>
    /\ candle_flags = NoFlags
    /\ candle_first = NoFlags

FeatIdle ==
    /\ feat_ip = Len(feature_calls)
    /\ feat_a = <<>>
    /\ feat_b = <<>>
    /\ feat_t = 0
    /\ feat_lag_period = 0
    /\ feat_marker_period = 0
    /\ feat_cols_a = NoFlags
    /\ feat_cols_b = NoFlags

MaIdle ==
    /\ ma_pc = "idle"
    /\ ma_routine = ""
    /\ ma_series = <<>>
    /\ ma_period = 0
    /\ ma_columns = NoColumns

AlignIdle ==
    /\ align_pc = "idle"
    /\ align_nrows = 0
    /\ align_features = 0
    /\ align_index = <<>>
    /\ align_labels = <<>>
    /\ align_marker = NoMarker
    /\ align_result = AlignPending

\* get_full_historical_klines
Init ==
    FetchInit /\ SeqIdle /\ PipeIdle /\ LabelIdle /\ PrepIdle /\ NormIdle
    /\ BatchIdle /\ CandleIdle /\ FeatIdle /\ MaIdle /\ AlignIdle
Next == FetchNext
Spec == Init /\ [][Next]_vars
\* The call runs in one thread that takes its next step whenever it has one;
\* every request to the API comes back with a page or an exception
SpecFair == Init /\ [][Next]_vars /\ WF_vars(Next)

\* create_sequences
InitSeq ==
    FetchIdle /\ SeqInit /\ PipeIdle /\ LabelIdle /\ PrepIdle /\ NormIdle
    /\ BatchIdle /\ CandleIdle /\ FeatIdle /\ MaIdle /\ AlignIdle
SpecSeq == InitSeq /\ [][SeqNext]_vars

\* normalize_df then handle_pca
InitPipe ==
    FetchIdle /\ SeqIdle /\ PipeInit /\ LabelIdle /\ PrepIdle /\ NormIdle
    /\ BatchIdle /\ CandleIdle /\ FeatIdle /\ MaIdle /\ AlignIdle
SpecPipe == InitPipe /\ [][PipeNext]_vars

\* calc_utils.prepare_df
InitLabel ==
    FetchIdle /\ SeqIdle /\ PipeIdle /\ LabelInit /\ PrepIdle /\ NormIdle
    /\ BatchIdle /\ CandleIdle /\ FeatIdle /\ MaIdle /\ AlignIdle
SpecLabel == InitLabel /\ [][LabelNext]_vars

\* df_utils.prepare_ml_df
InitPrep ==
    FetchIdle /\ SeqIdle /\ PipeIdle /\ LabelIdle /\ PrepInit /\ NormIdle
    /\ BatchIdle /\ CandleIdle /\ FeatIdle /\ MaIdle /\ AlignIdle
SpecPrep == InitPrep /\ [][PrepNext]_vars

\* normalize_df on values
InitNorm ==
    FetchIdle /\ SeqIdle /\ PipeIdle /\ LabelIdle /\ PrepIdle /\ NormInit
    /\ BatchIdle /\ CandleIdle /\ FeatIdle /\ MaIdle /\ AlignIdle
SpecNorm == InitNorm /\ [][NormNext]_vars

\* scripts/fetch_data.fetch_data
InitBatch ==
    FetchIdle /\ SeqIdle /\ PipeIdle /\ LabelIdle /\ PrepIdle /\ NormIdle
    /\ BatchInit /\ CandleIdle /\ FeatIdle /\ MaIdle /\ AlignIdle
SpecBatch == InitBatch /\ [][BatchNext]_vars
SpecBatchFair == InitBatch /\ [][BatchNext]_vars /\ WF_vars(BatchNext)

\* df_utils candlestick pattern detectors
InitCandle ==
    FetchIdle /\ SeqIdle /\ PipeIdle /\ LabelIdle /\ PrepIdle /\ NormIdle
    /\ BatchIdle /\ CandleInit /\ FeatIdle /\ MaIdle /\ AlignIdle
SpecCandle == InitCandle /\ [][CandleNext]_vars

\* df_utils feature steps on two tables
InitFeat ==
    FetchIdle /\ SeqIdle /\ PipeIdle /\ LabelIdle /\ PrepIdle /\ NormIdle
    /\ BatchIdle /\ CandleIdle /\ FeatInit /\ MaIdle /\ AlignIdle
SpecFeat == InitFeat /\ [][FeatNext]_vars

\* X_pct_change_vs_ma_N of prepare_df and calculate_indicator_changes
InitMa ==
    FetchIdle /\ SeqIdle /\ PipeIdle /\ LabelIdle /\ PrepIdle /\ NormIdle
    /\ BatchIdle /\ CandleIdle /\ FeatIdle /\ MaInit /\ AlignIdle
SpecMa == InitMa /\ [][MaNext]_vars

\* handle_pca on rows
InitAlign ==
    FetchIdle /\ SeqIdle /\ PipeIdle /\ LabelIdle /\ PrepIdle /\ NormIdle
    /\ BatchIdle /\ CandleIdle /\ FeatIdle /\ MaIdle /\ AlignInit
SpecAlign == InitAlign /\ [][AlignNext]_vars

-----------------------------------------------------------------------------
\* Properties

\* C1: in the training chain (training_mode on, a result_marker designated)
\* the matrix the PCA is fit on never contains the label column.
C1_LabelNeverInPcaFit ==
    (p_training_mode /\ p_result_marker # NoMarker)
        => p_result_marker \notin pca_fit_columns

\* C2: in training mode no label is read from one of the last marker_period
\* rows of the table: every label read position i + L is below n - m.
C2_NoLabelFromTail ==
    training_mode =>
        \A k \in 1..Len(y_rows) : y_rows[k] < Len(closes) - marker_period

\* C3: against the candle history, after a non-empty page the next cursor is
\* strictly past the last returned open_time, and the returned table has
\* strictly ascending open_time values (no row twice).
C3_AscendingNoDuplicate ==
    apiMode = "history" =>
        /\ (pc = "loop" /\ all_klines # <<>>)
              => start_str.val > all_klines[Len(all_klines)].open_time
        /\ (pc = "done" /\ result.kind = "df")
              => \A j \in 1..(Len(result.rows) - 1) :
                    result.rows[j].open_time < result.rows[j + 1].open_time

\* Open times of the candles the API holds at or after the resolved start
HeldOpenTimes ==
    { FirstAtOrAfter(start_date, interval) + k * IntervalSeconds(interval) :
        k \in 0..(Available(start_date, interval) - 1) }

\* C4: against the candle history, a returned table contains every candle
\* the API holds with open_time >= start (stated for a machine whose local
\* clock is UTC, where dt.now() and utcfromtimestamp agree).
C4_TableComplete ==
    (apiMode = "history" /\ tz = 0 /\ pc = "done" /\ result.kind = "df")
        => HeldOpenTimes \subseteq
             { result.rows[j].open_time : j \in 1..Len(result.rows) }

C6_ErrorReturnsNone ==
    /\ ~propagated
    /\ apiErrors >= 1 => (pc = "done" /\ result = None)

C6_Witness ==
    /\ apiErrors >= 1
    /\ pc = "done"
    /\ Len(all_klines) > 0
    /\ result = None

\* C7: with the mock answering one page of one row and then an empty page,
\* interval 1h and a date-string start (a date in the past, as in the
\* test), the call returns the table holding exactly that row.
C7_OneRowTable ==
    ( /\ apiMode = "script"
      /\ interval = "1h"
      /\ start_in.form = "date"
      /\ pc = "done"
      /\ Delta > 0 )
        => result = BuildDataFrame(<<TestRow>>)

\* C8: a millisecond timestamp (int or digit string) is resolved to that
\* same epoch and the fetch goes on to query the API.
C8_TimestampAccepted ==
    (start_in.form = "digits" /\ pc # "call")
        => /\ start_str.val = start_in.val
           /\ pc = "done" => requests # <<>>

\* The table create_sequences was given has the label column and every
\* argument is present
SeqWellFormedCall == none_args = {} /\ HasColumn(df_reduced, result_marker)

\* C9: in training mode create_sequences returns max(0, n - W - L) windows
\* and as many labels, every window has W rows, and zero sequences is a
\* normal return.
C9_SequenceCount ==
    (training_mode /\ SeqWellFormedCall /\ seq_pc = "done")
        => /\ seq_result.first.kind = "ndarray"
           /\ seq_result.second.kind = "ndarray"
           /\ Len(seq_result.first.data)
                = Max(0, Len(closes) - window_size - lookback)
           /\ Len(seq_result.second.data) = Len(seq_result.first.data)
           /\ \A k \in 1..Len(seq_result.first.data) :
                 Len(seq_result.first.data[k]) = window_size

C9_Witness ==
    /\ training_mode
    /\ seq_pc = "done"
    /\ window_size = 2
    /\ Len(seq_result.first.data) = 2
    /\ Len(seq_result.second.data) = 2

\* C10: in training mode the k-th pair (k = 0, 1, ...) belongs to index
\* i = W + k: its window is rows i-W .. i-1 in source order without the
\* label column, its label is the label column at row i + L, and that row
\* lies after the window.
C10_PairContent ==
    (training_mode /\ seq_pc \in {"loop", "done"})
        => /\ Len(y) = Len(X)
           /\ \A k \in 1..Len(X) :
                /\ X[k] = [ r \in 1..window_size |-> << closes[k - 1 + r] >> ]
                /\ y[k] = fillna(add_ml_regression_etiquete(
                              closes, marker_period))[window_size + k + lookback]
                /\ y_rows[k] = window_size + (k - 1) + lookback
                /\ y_rows[k] > window_size + (k - 1) - 1

C10_Witness ==
    /\ training_mode
    /\ seq_pc = "done"
    /\ window_size = 2
    /\ lookback = 0
    /\ Len(X) = 2
    /\ X[1] # X[2]
    /\ y[1] # 0

\* C11: with training_mode=False create_sequences returns the window array
\* alone: the value it returns has no second element, and no label was
\* extracted
C11_InferenceReturnsArrayOnly ==
    (seq_pc = "done" /\ ~training_mode /\ ~ArgsMissing(none_args, training_mode))
        => /\ seq_result.first = ndarray(X)
           /\ seq_result.second = NoElement
           /\ y = <<>>

\* C12 as stated: with training_mode=False, the table, window_size and
\* lookback present and result_marker None, create_sequences returns the
\* windows and not the failure result
C12_InferenceNeedsNoLabelColumn ==
    (seq_pc = "done" /\ ~training_mode /\ none_args = {"result_marker"})
        => seq_result.first.kind = "ndarray"

\* C12, amended: result_marker is a required argument in both modes (passed
\* as None the call returns the failure pair (None, None)); what inference
\* mode does not require is that the named column exists in the table
C12_LabelArgumentRequired ==
    (seq_pc = "done" /\ ~training_mode)
        => /\ ("result_marker" \in none_args)
                => seq_result = [first |-> PyNone, second |-> PyNone]
           /\ (none_args = {})
                => seq_result.first = ndarray(X)

C12_Witness ==
    /\ seq_pc = "done"
    /\ ~training_mode
    /\ none_args = {"result_marker"}
    /\ Len(df_reduced.rows) > window_size + lookback
    /\ seq_result = [first |-> PyNone, second |-> PyNone]

\* The closes of the rows t+1 .. t+m
FutureCloses(t, m) == { lab_close[k] : k \in (t + 1)..(t + m) }

\* The success condition as C13 states it: over the next m rows the maximum
\* close is a gain of at least success_threshold percent over close[t] and
\* the minimum close is not below drop_threshold percent
ForwardSuccess(t, m) ==
    /\ (SetMax(FutureCloses(t, m)) - lab_close[t]) * 100
            >= success_threshold * lab_close[t]
    /\ (SetMin(FutureCloses(t, m)) - lab_close[t]) * 100
            >= drop_threshold * lab_close[t]

\* C13: the classification label of row t is true exactly when the closes of
\* rows t+1 .. t+marker_period reach a gain of at least success_threshold
\* percent and never fall below drop_threshold percent
C13_LabelFromNextCloses ==
    (lab_pc = "done" /\ lab_result.kind = "df" /\ clasification)
        => \A k \in 1..Len(markers_periods) :
             \A t \in 1..(Len(lab_close) - markers_periods[k]) :
                (lab_result.table[ClassificationName(markers_periods[k])][t].v = 1)
                    <=> ForwardSuccess(t, markers_periods[k])

\* A call of prepare_ml_df with a non-empty table of the fetched columns and
\* a settings dictionary holding every key
PrepValidCall ==
    /\ prep_df.kind = "df" /\ prep_df.nrows > 0
    /\ prep_df.columns = OhlcvColumns
    /\ prep_settings.kind = "dict"
    /\ DOMAIN prep_settings.items = SettingsKeys

\* C14: for a non-empty OHLCV table and valid settings, prepare_ml_df with
\* training_mode and classification returns a table holding the column
\* marker_close_trade_success_in_next_{marker_period}_periods, and with
\* regression the column marker_close_pct_change_in_next_{marker_period}_periods
C14_LabelColumnsReturned ==
    (prep_pc = "done" /\ PrepValidCall /\ prep_training_mode
        /\ prep_classification)
        => /\ prep_result.kind = "df"
           /\ ClassificationName(prep_settings.items["marker_periods"])
                \in prep_result.columns
           /\ prep_regression
                => RegressionName(prep_settings.items["marker_periods"])
                     \in prep_result.columns

\* The label columns a settings dictionary can name
MarkerColumns ==
    UNION { { RegressionName(Get(st.items, "marker_periods")),
              ClassificationName(Get(st.items, "marker_periods")) } :
            st \in PrepSettings }

\* C15: with training_mode=False, whatever the regression and classification
\* flags, no labelling step is called, no read of later rows is evaluated,
\* and neither the working table nor the returned table holds a label column
C15_NoLabelInInference ==
    ~prep_training_mode
        => /\ ~prep_future
           /\ prep_called \cap {"add_ml_regression_etiquete",
                                "add_ml_classification_etiquete"} = {}
           /\ (prep_cols \cup prep_result.columns) \cap MarkerColumns = {}

C15_Witness ==
    /\ prep_pc = "done"
    /\ ~prep_training_mode
    /\ prep_regression /\ prep_classification
    /\ PrepValidCall
    /\ prep_result.kind = "df"
    /\ "calculate_ml_momentum_signals" \in prep_called
    /\ prep_filled

\* C16: if a step that prepare_ml_df called has failed, prepare_ml_df returns
\* the absent result
C16_FailedStepReturnsNone ==
    (prep_pc = "done" /\ prep_failed # {}) => prep_result = PrepNone

Zero == [m |-> <<>>, e |-> 0]
One == [m |-> <<1>>, e |-> 0]

\* C17: at inference the scaler fitted in training is applied and never
\* refit, so the normalized values of an inference row depend on that row
\* only: when normalize_df is called in inference mode on a table and then
\* on the same table with one more row, every row of the first table gets
\* the same normalized values in both results.
C17_InferenceRowKeepsItsValues ==
    (/\ norm_pc = "returned"
     /\ ~norm_training_mode
     /\ norm_prev.kind = "df"
     /\ norm_result.kind = "df")
    => \A k \in 1..Len(norm_prev.rows) : norm_result.rows[k] = norm_prev.rows[k]

\* The columns normalize_df scaled in the call that returned, and for such
\* a column the input values (+inf and -inf counted as 0) and the output
\* values
ScaledColumns ==
    FeatureNames(norm_df, norm_training_mode, norm_result_marker)
InputValues(c) ==
    { IF norm_df.rows[k][c].kind = "num" THEN norm_df.rows[k][c].v ELSE 0 :
        k \in 1..Len(norm_df.rows) }
OutputValues(c) == { norm_result.rows[k][c] : k \in 1..Len(norm_result.rows) }
NormReturnedTable == norm_pc = "returned" /\ norm_result.kind = "df"

\* The parts of C18 taken one at a time
ScaledWithinUnitRange ==
    NormReturnedTable
    => \A c \in ScaledColumns : \A p \in OutputValues(c) : LeOne(p)
ScaledMinimumIsZero ==
    NormReturnedTable
    => \A c \in ScaledColumns :
           Cardinality(InputValues(c)) >= 2 => Zero \in OutputValues(c)
ScaledMaximumIsOne ==
    NormReturnedTable
    => \A c \in ScaledColumns :
           Cardinality(InputValues(c)) >= 2
           => (One \in OutputValues(c) /\ \A p \in OutputValues(c) : LeOne(p))
ConstantColumnDefined ==
    NormReturnedTable
    => \A c \in ScaledColumns :
           Cardinality(InputValues(c)) = 1 => OutputValues(c) = {Zero}
InfinityScaledAsZero ==
    NormReturnedTable
    => \A c \in ScaledColumns : \A k \in 1..Len(norm_df.rows) :
           norm_df.rows[k][c].kind # "num"
           => norm_result.rows[k][c] = transform(0, scaler.params[c])

\* C18: for a non-empty table every value of a scaled column lies in
\* [0, 1]; a scaled column with at least two distinct input values has
\* minimum 0 and maximum 1; a constant column is mapped to a defined value
\* (0); and an input of +inf or -inf is scaled as 0 is.
C18_ScaledIntoUnitRange ==
    /\ ScaledWithinUnitRange
    /\ ScaledMinimumIsZero
    /\ ScaledMaximumIsOne
    /\ ConstantColumnDefined
    /\ InfinityScaledAsZero

\* C19: in training mode with a result_marker that is a column of the
\* table, the label column of what normalize_df returns equals the label
\* column of its argument row for row, whatever the label values are.
C19_LabelColumnUnchanged ==
    (/\ norm_pc = "returned"
     /\ norm_training_mode
     /\ norm_result_marker \in ColumnNames(norm_df)
     /\ norm_result.kind = "df")
    => \A k \in 1..Len(norm_df.rows) :
           norm_result.rows[k][norm_result_marker]
             = norm_df.rows[k][norm_result_marker]

\* C20: normalize_df returns None exactly when the table is absent or empty
\* or a result_marker is given that is not a column of the table, whatever
\* training_mode is; otherwise it returns a normalized table.
C20_FailsExactlyOnBadArguments ==
    pipe_pc \in {"normalized", "reduced"}
    => (df_normalized = NoTable
        <=> \/ IsEmpty(loaded_df)
            \/ /\ p_result_marker # NoMarker
               /\ p_result_marker \notin ColumnNames(loaded_df))

\* C22: for every non-empty normalized table, whatever its numbers of rows
\* and columns, handle_pca returns a table of exactly n_components (50)
\* component columns, plus the label column when a result_marker that is a
\* column of loaded_df is given.
C22_FiftyComponentColumns ==
    (pipe_pc = "reduced" /\ ~IsEmpty(df_normalized))
    => /\ df_pca.kind = "df"
       /\ Len(df_pca.columns)
            = n_components
              + (IF /\ PcaMarkerArg(p_training_mode, p_result_marker) # NoMarker
                    /\ PcaMarkerArg(p_training_mode, p_result_marker)
                         \in ColumnNames(loaded_df)
                 THEN 1 ELSE 0)

\* The steps of fetch_sequence whose fetch failed (returned None or raised)
FailedSteps ==
    { k \in 1..Len(fetch_sequence) :
        fetch_sequence[k].fetched.kind \in {"None", "raises"} }

\* C23: outside dry-run mode get_full_historical_klines is invoked exactly
\* once for each step of fetch_sequence, in sequence order; a step whose
\* fetch returned None or raised has no CSV file; a failed step does not
\* keep a later step from being attempted; and the driver always reaches
\* its final completion log.
C23_BatchAttemptsEveryStep ==
    /\ [](~dry_run =>
            /\ fetch_calls = [ k \in 1..Len(fetch_calls) |-> k ]
            /\ Len(fetch_calls) <= Len(fetch_sequence)
            /\ batch_pc = "done" => Len(fetch_calls) = Len(fetch_sequence)
            /\ csv_files \cap FailedSteps = {})
    /\ <>(batch_pc = "done" /\ completion_logged)

C23_Witness ==
    /\ batch_pc = "done"
    /\ ~dry_run
    /\ completion_logged
    /\ \E k \in FailedSteps : \E j \in csv_files : k < j
    /\ \E k \in FailedSteps : fetch_sequence[k].fetched.kind = "raises"

\* The flag columns assigned so far, and the value of flag column c at row k
FlagColumns == DOMAIN candle_flags
Flag(c, k) == candle_flags[c][k]

C27_CallerTableUntouched ==
    [][/\ prep_df' = prep_df
       /\ (prep_pc' = "done" /\ prep_calls' > 1 => prep_result' = prep_prev')]_vars

C27_Witness ==
    /\ prep_pc = "done"
    /\ prep_calls = MaxPrepCalls
    /\ prep_result.kind = "df"
    /\ prep_result.columns # prep_df.columns
    /\ prep_result = prep_prev


C30_WindowsStopBeforeTail ==
    /\ Len(X_rows) = Len(X)
    /\ \A k \in 1..Len(X_rows) : \A r \in 1..Len(X_rows[k]) :
          X_rows[k][r][1] <= Len(closes) - lookback - 2
    /\ (seq_pc = "done" /\ Len(X_rows) > 0 /\ window_size > 0)
          => X_rows[Len(X_rows)][window_size][1] = Len(closes) - lookback - 2

C30_Witness ==
    /\ seq_pc = "done"
    /\ ~training_mode
    /\ lookback = 1
    /\ Len(closes) = 4
    /\ X_rows = << << <<0>>, <<1>> >> >>


\* The page requests of the loop: those issued with limit=1000
PageRequests ==
    Cardinality({ k \in 1..Len(requests) :
                    requests[k].limit = candles_per_iteration })

C28_ZeroAverageYieldsZero ==
    ma_pc = "done"
        => \A t \in 1..Len(ma_series) :
              LET ma == ma_columns.X_ma[t]
                  pct == ma_columns.X_pct_change_vs_ma[t]
              IN /\ (~ma.null /\ ma.v = 0) => (~pct.null /\ pct.v = 0)
                 /\ ~IsInfinite(pct)
                 /\ pct.null => ma.null

\* The same for prepare_df alone
PrepareDfGuardsZeroAverage ==
    ma_routine = "prepare_df" => C28_ZeroAverageYieldsZero


\* C21: the table handle_pca returns has one row per row of df_normalized,
\* in the same order, and when the label column is given the label attached
\* at row position k is the label of loaded_df at row position k, whatever
\* index labels loaded_df carries
C21_LabelAlignedByPosition ==
    (align_pc = "done" /\ align_result.kind = "df")
        => /\ Len(align_result.rows) = align_nrows
           /\ \A k \in 1..align_nrows :
                 /\ align_result.rows[k].source = k - 1
                 /\ align_marker = "marker"
                       => align_result.rows[k].label
                            = [null |-> FALSE, v |-> align_labels[k]]

====
